---- MODULE Spec2Model ----
(***************************************************************************)
(* A model of the `servable` crate: the ServableRouter dispatch protocol   *)
(* (router.rs), the Servable implementations (servable/*.rs) and the image *)
(* transform DSL (transform/*.rs).                                         *)
(*                                                                         *)
(* Text is modelled as a sequence of one-character strings, so that        *)
(* splitting, trimming, searching and replacing are computed, character by *)
(* character, the way the code computes them.                              *)
(***************************************************************************)
EXTENDS Integers, Sequences, FiniteSets, TLC

VARIABLES
    pages,      \* ServableRouter.pages: route key -> Servable (the shared HashMap)
    notfound,   \* ServableRouter.notfound
    panic,      \* NoPanic, or the message add_page panicked with
    holders,    \* other live clones of the `pages` Arc: clones of the router
                \* and the futures of other requests in flight
    req,        \* the future returned by call() and what it has done
    probe       \* one application of a function of the crate to an input:
                \* [fn, pc, in, out]

vars == <<pages, notfound, panic, holders, req, probe>>

----------------------------------------------------------------------------
(* Bounds *)

MaxPathLen == 2     \* longest generated request path
MaxRouteLen == 2    \* longest generated route key handed to add_page
MaxPages == 2       \* most entries the route table is grown to
MaxHolders == 1     \* most other holders of the `pages` Arc at once
MaxSteps == 3       \* most `;`-separated pieces of a generated chain string
MaxTtlSecs == 2     \* longest generated sub-day ttl, in seconds

----------------------------------------------------------------------------
(* Text helpers: str::starts_with, ends_with, contains, find, trim, split *)

StartsWith(s, p) ==
    /\ Len(s) >= Len(p)
    /\ SubSeq(s, 1, Len(p)) = p

EndsWith(s, p) ==
    /\ Len(s) >= Len(p)
    /\ SubSeq(s, Len(s) - Len(p) + 1, Len(s)) = p

Contains(s, p) ==
    \E i \in 1..(Len(s) - Len(p) + 1) : SubSeq(s, i, i + Len(p) - 1) = p

\* str::find with a predicate given as a set of characters: the 1-based
\* position of the first character in `cs`, or 0 for None.
FindIn(s, cs) ==
    IF \E i \in 1..Len(s) : s[i] \in cs
    THEN CHOOSE i \in 1..Len(s) : s[i] \in cs /\ \A j \in 1..(i - 1) : s[j] \notin cs
    ELSE 0

\* str::find with a predicate: first character NOT in `cs`, or 0 for None.
FindNotIn(s, cs) ==
    IF \E i \in 1..Len(s) : s[i] \notin cs
    THEN CHOOSE i \in 1..Len(s) : s[i] \notin cs /\ \A j \in 1..(i - 1) : s[j] \in cs
    ELSE 0

Whitespace == {" "}

RECURSIVE TrimStartChars(_, _)
TrimStartChars(s, cs) ==
    IF s # <<>> /\ s[1] \in cs THEN TrimStartChars(Tail(s), cs) ELSE s

RECURSIVE TrimEndChars(_, _)
TrimEndChars(s, cs) ==
    IF s # <<>> /\ s[Len(s)] \in cs
    THEN TrimEndChars(SubSeq(s, 1, Len(s) - 1), cs)
    ELSE s

\* str::trim
Trim(s) == TrimEndChars(TrimStartChars(s, Whitespace), Whitespace)

\* str::trim_matches(c)
TrimMatches(s, c) == TrimEndChars(TrimStartChars(s, {c}), {c})

\* str::split(c): the pieces between occurrences of c (always at least one)
RECURSIVE Split(_, _)
Split(s, c) ==
    LET i == FindIn(s, {c})
    IN  IF i = 0 THEN <<s>>
        ELSE <<SubSeq(s, 1, i - 1)>> \o Split(SubSeq(s, i + 1, Len(s)), c)

\* All sequences over `cs` of length exactly n / at most n
RECURSIVE SeqsOfLen(_, _)
SeqsOfLen(cs, n) ==
    IF n = 0 THEN {<<>>}
    ELSE {<<c>> \o s : c \in cs, s \in SeqsOfLen(cs, n - 1)}

SeqsUpTo(cs, n) == UNION {SeqsOfLen(cs, k) : k \in 0..n}

RECURSIVE Join(_, _)
Join(ss, sep) ==
    IF ss = <<>> THEN <<>>
    ELSE IF Len(ss) = 1 THEN ss[1]
    ELSE ss[1] \o sep \o Join(Tail(ss), sep)

Ok(v) == [ok |-> TRUE, val |-> v]
Err(e) == [ok |-> FALSE, err |-> e]

----------------------------------------------------------------------------
(* Numbers in text *)

Digits == {"0", "1", "2", "3", "4", "5", "6", "7", "8", "9"}

DigitVal(c) ==
    CASE c = "0" -> 0 [] c = "1" -> 1 [] c = "2" -> 2 [] c = "3" -> 3
      [] c = "4" -> 4 [] c = "5" -> 5 [] c = "6" -> 6 [] c = "7" -> 7
      [] c = "8" -> 8 [] c = "9" -> 9

RECURSIVE DecVal(_)
DecVal(s) ==
    IF s = <<>> THEN 0
    ELSE DecVal(SubSeq(s, 1, Len(s) - 1)) * 10 + DigitVal(s[Len(s)])

\* Numeric order of two digit strings of the same length
RECURSIVE DigitsLeq(_, _)
DigitsLeq(a, b) ==
    IF a = <<>> THEN TRUE
    ELSE IF DigitVal(a[1]) # DigitVal(b[1]) THEN DigitVal(a[1]) < DigitVal(b[1])
    ELSE DigitsLeq(Tail(a), Tail(b))

\* Numeric order of two digit strings without leading zeros
DecLeq(a, b) == Len(a) < Len(b) \/ (Len(a) = Len(b) /\ DigitsLeq(a, b))

\* u32::MAX, and the largest integer the model checker represents, as digits
U32MaxDigits == <<"4", "2", "9", "4", "9", "6", "7", "2", "9", "5">>
ModelMaxDigits == <<"2", "1", "4", "7", "4", "8", "3", "6", "4", "7">>

\* <u32 as FromStr>::from_str on text made of digits and '.' only.  A value
\* above ModelMaxDigits (and within u32) is kept as that largest integer.
ParseU32(q) ==
    LET d == TrimStartChars(q, {"0"})
    IN  IF q = <<>> \/ \E i \in 1..Len(q) : q[i] \notin Digits
        THEN Err(<<"invalid quantity", q>>)
        ELSE IF ~DecLeq(d, U32MaxDigits) THEN Err(<<"invalid quantity", q>>)
        ELSE IF DecLeq(d, ModelMaxDigits) THEN Ok(DecVal(d))
        ELSE Ok(DecVal(ModelMaxDigits))

\* <f32 as FromStr>::from_str on text made of digits and '.' only: an
\* optional integer part `ip`, an optional '.', an optional fraction `fp`,
\* at least one digit.  The value is kept in hundredths (two fraction digits).
ParseF32Parts(q, ip, fp) ==
    IF \/ \E i \in 1..Len(ip) : ip[i] \notin Digits
       \/ \E i \in 1..Len(fp) : fp[i] \notin Digits
       \/ (ip = <<>> /\ fp = <<>>)
    THEN Err(<<"invalid quantity", q>>)
    ELSE Ok(DecVal(ip) * 100 + DecVal(SubSeq(fp \o <<"0", "0">>, 1, 2)))

ParseF32At(q, dot) ==
    ParseF32Parts(q,
                  IF dot = 0 THEN q ELSE SubSeq(q, 1, dot - 1),
                  IF dot = 0 THEN <<>> ELSE SubSeq(q, dot + 1, Len(q)))

ParseF32(q) == ParseF32At(q, FindIn(q, {"."}))

----------------------------------------------------------------------------
(* transform/pixeldim.rs *)

\* The Ok/Err wrapping of one arm of PixelDim::from_str
PixelDimOf(kind, r) == IF r.ok THEN Ok([kind |-> kind, v |-> r.val]) ELSE r

\* The `match unit` of PixelDim::from_str
PixelDimMatch(quantity, unit) ==
    IF unit = <<"v", "w">> THEN PixelDimOf("WidthPercent", ParseF32(quantity))
    ELSE IF unit = <<"v", "h">> THEN PixelDimOf("HeightPercent", ParseF32(quantity))
    ELSE IF unit = <<"p", "x">> THEN PixelDimOf("Pixels", ParseU32(quantity))
    ELSE Err(<<"invalid unit", unit>>)

\* numeric_end.map(|x| s.split_at(x)).unwrap_or((s, "px")), both trimmed
PixelDimSplit(s, numeric_end) ==
    PixelDimMatch(Trim(IF numeric_end = 0 THEN s ELSE SubSeq(s, 1, numeric_end - 1)),
                  IF numeric_end = 0 THEN <<"p", "x">>
                  ELSE Trim(SubSeq(s, numeric_end, Len(s))))

\* PixelDim::from_str
PixelDimFromStr(s) == PixelDimSplit(s, FindNotIn(s, Digits \cup {"."}))

----------------------------------------------------------------------------
(* mime.rs: MimeType <-> text.  A MimeType is [tag, text]: a variant name  *)
(* with empty text, or tag "Other" with the text it was parsed from.  The  *)
(* string form of a MIME is kept as one string.                            *)

Mime(tag) == [tag |-> tag, text |-> ""]
OtherMime(s) == [tag |-> "Other", text |-> s]

\* Option<MimeType>::None
NoMime == [tag |-> "None", text |-> ""]

\* <MimeType as Display>::fmt
MimeToString(m) ==
    CASE m.tag = "Blob" -> "application/octet-stream"
      [] m.tag = "Aac" -> "audio/aac"
      [] m.tag = "Flac" -> "audio/flac"
      [] m.tag = "Midi" -> "audio/midi"
      [] m.tag = "Mp3" -> "audio/mpeg"
      [] m.tag = "Oga" -> "audio/ogg"
      [] m.tag = "Opus" -> "audio/ogg"
      [] m.tag = "Wav" -> "audio/wav"
      [] m.tag = "Weba" -> "audio/webm"
      [] m.tag = "Avi" -> "video/x-msvideo"
      [] m.tag = "Mp4" -> "video/mp4"
      [] m.tag = "Mpeg" -> "video/mpeg"
      [] m.tag = "Ogv" -> "video/ogg"
      [] m.tag = "Ts" -> "video/mp2t"
      [] m.tag = "WebmVideo" -> "video/webm"
      [] m.tag = "ThreeGp" -> "video/3gpp"
      [] m.tag = "ThreeG2" -> "video/3gpp2"
      [] m.tag = "Apng" -> "image/apng"
      [] m.tag = "Avif" -> "image/avif"
      [] m.tag = "Bmp" -> "image/bmp"
      [] m.tag = "Gif" -> "image/gif"
      [] m.tag = "Ico" -> "image/vnd.microsoft.icon"
      [] m.tag = "Jpg" -> "image/jpeg"
      [] m.tag = "Png" -> "image/png"
      [] m.tag = "Svg" -> "image/svg+xml"
      [] m.tag = "Tiff" -> "image/tiff"
      [] m.tag = "Webp" -> "image/webp"
      [] m.tag = "Qoi" -> "image/qoi"
      [] m.tag = "Text" -> "text/plain"
      [] m.tag = "Css" -> "text/css"
      [] m.tag = "Csv" -> "text/csv"
      [] m.tag = "Html" -> "text/html"
      [] m.tag = "Javascript" -> "text/javascript"
      [] m.tag = "Json" -> "application/json"
      [] m.tag = "JsonLd" -> "application/ld+json"
      [] m.tag = "Xml" -> "application/xml"
      [] m.tag = "Pdf" -> "application/pdf"
      [] m.tag = "Rtf" -> "application/rtf"
      [] m.tag = "Arc" -> "application/x-freearc"
      [] m.tag = "Bz" -> "application/x-bzip"
      [] m.tag = "Bz2" -> "application/x-bzip2"
      [] m.tag = "Gz" -> "application/gzip"
      [] m.tag = "Jar" -> "application/java-archive"
      [] m.tag = "Ogg" -> "application/ogg"
      [] m.tag = "Rar" -> "application/vnd.rar"
      [] m.tag = "SevenZ" -> "application/x-7z-compressed"
      [] m.tag = "Tar" -> "application/x-tar"
      [] m.tag = "Zip" -> "application/zip"
      [] m.tag = "Eot" -> "application/vnd.ms-fontobject"
      [] m.tag = "Otf" -> "font/otf"
      [] m.tag = "Ttf" -> "font/ttf"
      [] m.tag = "Woff" -> "font/woff"
      [] m.tag = "Woff2" -> "font/woff2"
      [] m.tag = "Abiword" -> "application/x-abiword"
      [] m.tag = "Azw" -> "application/vnd.amazon.ebook"
      [] m.tag = "Cda" -> "application/x-cdf"
      [] m.tag = "Csh" -> "application/x-csh"
      [] m.tag = "Doc" -> "application/msword"
      [] m.tag = "Docx" -> "application/vnd.openxmlformats-officedocument.wordprocessingml.document"
      [] m.tag = "Epub" -> "application/epub+zip"
      [] m.tag = "Ics" -> "text/calendar"
      [] m.tag = "Mpkg" -> "application/vnd.apple.installer+xml"
      [] m.tag = "Odp" -> "application/vnd.oasis.opendocument.presentation"
      [] m.tag = "Ods" -> "application/vnd.oasis.opendocument.spreadsheet"
      [] m.tag = "Odt" -> "application/vnd.oasis.opendocument.text"
      [] m.tag = "Php" -> "application/x-httpd-php"
      [] m.tag = "Ppt" -> "application/vnd.ms-powerpoint"
      [] m.tag = "Pptx" -> "application/vnd.openxmlformats-officedocument.presentationml.presentation"
      [] m.tag = "Sh" -> "application/x-sh"
      [] m.tag = "Vsd" -> "application/vnd.visio"
      [] m.tag = "Xhtml" -> "application/xhtml+xml"
      [] m.tag = "Xls" -> "application/vnd.ms-excel"
      [] m.tag = "Xlsx" -> "application/vnd.openxmlformats-officedocument.spreadsheetml.sheet"
      [] m.tag = "Xul" -> "application/vnd.mozilla.xul+xml"
      [] m.tag = "Other" -> m.text

\* <MimeType as FromStr>::from_str
MimeFromStr(s) ==
    CASE s = "application/octet-stream" -> Mime("Blob")
      [] s = "audio/aac" -> Mime("Aac")
      [] s = "audio/flac" -> Mime("Flac")
      [] s \in {"audio/midi", "audio/x-midi"} -> Mime("Midi")
      [] s = "audio/mpeg" -> Mime("Mp3")
      [] s = "audio/ogg" -> Mime("Oga")
      [] s = "audio/wav" -> Mime("Wav")
      [] s = "audio/webm" -> Mime("Weba")
      [] s = "video/x-msvideo" -> Mime("Avi")
      [] s = "video/mp4" -> Mime("Mp4")
      [] s = "video/mpeg" -> Mime("Mpeg")
      [] s = "video/ogg" -> Mime("Ogv")
      [] s = "video/mp2t" -> Mime("Ts")
      [] s = "video/webm" -> Mime("WebmVideo")
      [] s = "video/3gpp" -> Mime("ThreeGp")
      [] s = "video/3gpp2" -> Mime("ThreeG2")
      [] s = "image/apng" -> Mime("Apng")
      [] s = "image/avif" -> Mime("Avif")
      [] s = "image/bmp" -> Mime("Bmp")
      [] s = "image/gif" -> Mime("Gif")
      [] s = "image/vnd.microsoft.icon" -> Mime("Ico")
      [] s \in {"image/jpeg", "image/jpg"} -> Mime("Jpg")
      [] s = "image/png" -> Mime("Png")
      [] s = "image/svg+xml" -> Mime("Svg")
      [] s = "image/tiff" -> Mime("Tiff")
      [] s = "image/webp" -> Mime("Webp")
      [] s = "image/qoi" -> Mime("Qoi")
      [] s = "text/plain" -> Mime("Text")
      [] s = "text/css" -> Mime("Css")
      [] s = "text/csv" -> Mime("Csv")
      [] s = "text/html" -> Mime("Html")
      [] s = "text/javascript" -> Mime("Javascript")
      [] s = "application/json" -> Mime("Json")
      [] s = "application/ld+json" -> Mime("JsonLd")
      [] s \in {"application/xml", "text/xml"} -> Mime("Xml")
      [] s = "application/pdf" -> Mime("Pdf")
      [] s = "application/rtf" -> Mime("Rtf")
      [] s = "application/x-freearc" -> Mime("Arc")
      [] s = "application/x-bzip" -> Mime("Bz")
      [] s = "application/x-bzip2" -> Mime("Bz2")
      [] s \in {"application/gzip", "application/x-gzip"} -> Mime("Gz")
      [] s = "application/java-archive" -> Mime("Jar")
      [] s = "application/ogg" -> Mime("Ogg")
      [] s = "application/vnd.rar" -> Mime("Rar")
      [] s = "application/x-7z-compressed" -> Mime("SevenZ")
      [] s = "application/x-tar" -> Mime("Tar")
      [] s \in {"application/zip", "application/x-zip-compressed"} -> Mime("Zip")
      [] s = "application/vnd.ms-fontobject" -> Mime("Eot")
      [] s = "font/otf" -> Mime("Otf")
      [] s = "font/ttf" -> Mime("Ttf")
      [] s = "font/woff" -> Mime("Woff")
      [] s = "font/woff2" -> Mime("Woff2")
      [] s = "application/x-abiword" -> Mime("Abiword")
      [] s = "application/vnd.amazon.ebook" -> Mime("Azw")
      [] s = "application/x-cdf" -> Mime("Cda")
      [] s = "application/x-csh" -> Mime("Csh")
      [] s = "application/msword" -> Mime("Doc")
      [] s = "application/vnd.openxmlformats-officedocument.wordprocessingml.document" -> Mime("Docx")
      [] s = "application/epub+zip" -> Mime("Epub")
      [] s = "text/calendar" -> Mime("Ics")
      [] s = "application/vnd.apple.installer+xml" -> Mime("Mpkg")
      [] s = "application/vnd.oasis.opendocument.presentation" -> Mime("Odp")
      [] s = "application/vnd.oasis.opendocument.spreadsheet" -> Mime("Ods")
      [] s = "application/vnd.oasis.opendocument.text" -> Mime("Odt")
      [] s = "application/x-httpd-php" -> Mime("Php")
      [] s = "application/vnd.ms-powerpoint" -> Mime("Ppt")
      [] s = "application/vnd.openxmlformats-officedocument.presentationml.presentation" -> Mime("Pptx")
      [] s = "application/x-sh" -> Mime("Sh")
      [] s = "application/vnd.visio" -> Mime("Vsd")
      [] s = "application/xhtml+xml" -> Mime("Xhtml")
      [] s = "application/vnd.ms-excel" -> Mime("Xls")
      [] s = "application/vnd.openxmlformats-officedocument.spreadsheetml.sheet" -> Mime("Xlsx")
      [] s = "application/vnd.mozilla.xul+xml" -> Mime("Xul")
      [] OTHER -> OtherMime(s)

----------------------------------------------------------------------------
(* The `image` crate's ImageFormat tables, as the transform code uses them *)

NoFormat == "NoFormat"

\* ImageFormat::from_extension
FormatFromExtension(ext) ==
    CASE ext = <<"p", "n", "g">> -> "Png"
      [] ext = <<"g", "i", "f">> -> "Gif"
      [] ext = <<"j", "p", "g">> -> "Jpeg"
      [] ext = <<"j", "p", "e", "g">> -> "Jpeg"
      [] ext = <<"i", "c", "o">> -> "Ico"
      [] ext = <<"b", "m", "p">> -> "Bmp"
      [] ext = <<"w", "e", "b", "p">> -> "WebP"
      [] ext = <<"q", "o", "i">> -> "Qoi"
      [] ext = <<"f", "f">> -> "Farbfeld"
      [] OTHER -> NoFormat

\* ImageFormat::from_mime_type
FormatFromMimeType(s) ==
    CASE s = "image/png" -> "Png"
      [] s = "image/gif" -> "Gif"
      [] s = "image/jpeg" -> "Jpeg"
      [] s \in {"image/x-icon", "image/vnd.microsoft.icon"} -> "Ico"
      [] s = "image/bmp" -> "Bmp"
      [] s = "image/webp" -> "WebP"
      [] s = "image/qoi" -> "Qoi"
      [] OTHER -> NoFormat

\* ImageFormat::to_mime_type
FormatToMimeType(f) ==
    CASE f = "Png" -> "image/png"
      [] f = "Gif" -> "image/gif"
      [] f = "Jpeg" -> "image/jpeg"
      [] f = "Ico" -> "image/x-icon"
      [] f = "Bmp" -> "image/bmp"
      [] f = "WebP" -> "image/webp"
      [] f = "Qoi" -> "image/qoi"
      [] OTHER -> "application/octet-stream"

----------------------------------------------------------------------------
(* transform/transformers/{maxdim,crop,mod}.rs: parsing one step *)

\* <Direction as FromStr>::from_str (strum EnumString)
DirectionFromStr(s) ==
    CASE s \in {<<"n">>, <<"n", "o", "r", "t", "h">>} -> Ok("North")
      [] s \in {<<"e">>, <<"e", "a", "s", "t">>} -> Ok("East")
      [] s \in {<<"s">>, <<"s", "o", "u", "t", "h">>} -> Ok("South")
      [] s \in {<<"w">>, <<"w", "e", "s", "t">>} -> Ok("West")
      [] s \in {<<"c">>, <<"c", "e", "n", "t", "e", "r">>} -> Ok("Center")
      [] s \in {<<"n", "e">>, <<"n", "o", "r", "t", "h", "e", "a", "s", "t">>} -> Ok("NorthEast")
      [] s \in {<<"s", "e">>, <<"s", "o", "u", "t", "h", "e", "a", "s", "t">>} -> Ok("SouthEast")
      [] s \in {<<"n", "w">>, <<"n", "o", "r", "t", "h", "w", "e", "s", "t">>} -> Ok("NorthWest")
      [] s \in {<<"s", "w">>, <<"s", "o", "u", "t", "h", "w", "e", "s", "t">>} -> Ok("SouthWest")
      [] OTHER -> Err(<<"invalid direction", s>>)

\* The `?` chain of MaxDimTransformer::parse_args
MaxDimOf(w, h) ==
    IF ~w.ok THEN w
    ELSE IF ~h.ok THEN h
    ELSE Ok([kind |-> "MaxDim", w |-> w.val, h |-> h.val])

MaxDimParseSplit(a) ==
    IF Len(a) # 2 THEN Err(<<"expected 2 args, got", Len(a)>>)
    ELSE MaxDimOf(PixelDimFromStr(a[1]), PixelDimFromStr(a[2]))

\* MaxDimTransformer::parse_args
MaxDimParseArgs(args) == MaxDimParseSplit(Split(args, ","))

\* The `?` chain of CropTransformer::parse_args
CropOf(w, h, d) ==
    IF ~w.ok THEN w
    ELSE IF ~h.ok THEN h
    ELSE IF ~d.ok THEN d
    ELSE Ok([kind |-> "Crop", w |-> w.val, h |-> h.val, float |-> d.val])

CropParseSplit(a) ==
    IF Len(a) # 3 THEN Err(<<"expected 3 args, got", Len(a)>>)
    ELSE CropOf(PixelDimFromStr(Trim(a[1])), PixelDimFromStr(Trim(a[2])),
                DirectionFromStr(Trim(a[3])))

\* CropTransformer::parse_args
CropParseArgs(args) == CropParseSplit(Split(args, ","))

\* The balance-counting loop of TransformerEnum::from_str over s[from..]:
\* returns <<balance, end>> with `end` the 0-based byte offset the code holds
\* when the loop exits.
RECURSIVE BalanceScan(_, _, _, _)
BalanceScan(s, i, balance, end) ==
    IF i > Len(s) THEN <<balance, end>>
    ELSE LET b == IF s[i] = ")" THEN balance - 1
                  ELSE IF s[i] = "(" THEN balance + 1
                  ELSE balance
         IN  IF b = 0 THEN <<b, end>>
             ELSE BalanceScan(s, i + 1, b, end + 1)

\* The `format` arm of the `match name`
FormatOf(args, format) ==
    IF format = NoFormat THEN Err(<<"invalid image format", args>>)
    ELSE Ok([kind |-> "Format", format |-> format])

\* The `match name` of TransformerEnum::from_str
TransformerMatch(name, args) ==
    IF name = <<"m", "a", "x", "d", "i", "m">> THEN MaxDimParseArgs(args)
    ELSE IF name = <<"c", "r", "o", "p">> THEN CropParseArgs(args)
    ELSE IF name = <<"f", "o", "r", "m", "a", "t">> THEN FormatOf(args, FormatFromExtension(args))
    ELSE Err(<<"unknown transformation", name>>)

\* A faulty tail of from_str: what follows the closing parenthesis is not
\* looked at
TransformerSlicesAnyTrail(s, name_len, balance, end) ==
    IF balance # 0 THEN Err(<<"mismatched parenthesis in", s>>)
    ELSE TransformerMatch(Trim(SubSeq(s, 1, name_len - 1)),
                          Trim(SubSeq(s, name_len + 1, end)))

\* TransformerEnum::from_str after the balance loop: `name_len` is x + 1,
\* `balance` and `end` are what the loop left (end is a 0-based offset)
TransformerSlices(s, name_len, balance, end) ==
    IF balance # 0 THEN Err(<<"mismatched parenthesis in", s>>)
    ELSE IF Trim(SubSeq(s, end + 2, Len(s))) # <<>>
    THEN Err(<<"invalid transformation", s>>)
    ELSE TransformerMatch(Trim(SubSeq(s, 1, name_len - 1)),
                          Trim(SubSeq(s, name_len + 1, end)))

TransformerScanned(s, name_len, scan) == TransformerSlices(s, name_len, scan[1], scan[2])

\* TransformerEnum::from_str from s.find('('): `open` is the 1-based
\* position of the first '(' (the code's x + 1), 0 for None
TransformerFound(s, open) ==
    IF open = 0 THEN Err(<<"invalid transformation", s>>)
    ELSE TransformerScanned(s, open, BalanceScan(s, open + 1, 1, open))

TransformerTrimmed(s) == TransformerFound(s, FindIn(s, {"("}))

\* <TransformerEnum as FromStr>::from_str
TransformerEnumFromStr(raw) == TransformerTrimmed(Trim(raw))

----------------------------------------------------------------------------
(* transform/chain.rs *)

IsFormat(step) == step.kind = "Format"

\* The loop of TransformerChain::from_str over the `;`-separated pieces:
\* the steps parsed so far, or the error of the first piece that fails.
RECURSIVE ParseSteps(_, _)
\* A faulty loop body: a piece that does not parse is skipped
ParseStepSkipsInvalid(pieces, steps, s, step) ==
    IF s = <<>> \/ ~step.ok THEN ParseSteps(Tail(pieces), steps)
    ELSE ParseSteps(Tail(pieces), Append(steps, step.val))

ParseStep(pieces, steps, s, step) ==
    IF s = <<>> THEN ParseSteps(Tail(pieces), steps)
    ELSE IF step.ok THEN ParseSteps(Tail(pieces), Append(steps, step.val))
    ELSE Err(<<"invalid step", s, step.err>>)

ParseSteps(pieces, steps) ==
    IF pieces = <<>> THEN Ok(steps)
    ELSE ParseStep(pieces, steps, Trim(pieces[1]),
                   IF Trim(pieces[1]) = <<>> THEN Err(<<>>)
                   ELSE TransformerEnumFromStr(Trim(pieces[1])))

NFormat(steps) == Cardinality({i \in 1..Len(steps) : IsFormat(steps[i])})

LastIsFormat(steps) == steps # <<>> /\ IsFormat(steps[Len(steps)])

\* The chain-level checks of TransformerChain::from_str
ChainChecked(steps, n_format) ==
    IF n_format > 2 THEN Err(<<"provide at most one format()">>)
    ELSE IF n_format = 1 /\ ~LastIsFormat(steps) THEN Err(<<"format() must be last">>)
    ELSE Ok(steps)

ChainOfSteps(r) == IF ~r.ok THEN r ELSE ChainChecked(r.val, NFormat(r.val))

\* <TransformerChain as FromStr>::from_str
TransformerChainFromStr(s) == ChainOfSteps(ParseSteps(Split(s, ";"), <<>>))

\* TransformerChain::mime_is_image
MimeIsImage(mime) == FormatFromMimeType(MimeToString(mime)) # NoFormat

\* fmt.map(|_| mime) of TransformerChain::output_mime (NoMime for None)
ImageMimeOrNone(mime) ==
    IF FormatFromMimeType(MimeToString(mime)) # NoFormat THEN mime ELSE NoMime

\* TransformerChain::output_mime
OutputMime(steps, input_mime) ==
    ImageMimeOrNone(IF LastIsFormat(steps)
                    THEN MimeFromStr(FormatToMimeType(steps[Len(steps)].format))
                    ELSE input_mime)

\* The MIME half of TransformerChain::transform_bytes when decoding and
\* encoding succeed (NoMime for the NotAnImage error)
TransformBytesOut(steps, format) ==
    IF format = NoFormat THEN NoMime
    ELSE MimeFromStr(FormatToMimeType(IF LastIsFormat(steps)
                                      THEN steps[Len(steps)].format
                                      ELSE format))

TransformBytesMime(steps, image_format) ==
    TransformBytesOut(steps, FormatFromMimeType(MimeToString(image_format)))

----------------------------------------------------------------------------
(* types.rs: Rendered, RenderedBody, RenderContext *)

\* Option<TimeDelta>, in milliseconds
NoTtl == [some |-> FALSE, ms |-> 0]
Ttl(ms) == [some |-> TRUE, ms |-> ms]

\* TimeDelta::days(n)
Days(n) == Ttl(n * 86400000)

\* TimeDelta::num_seconds: whole seconds, rounded toward zero
NumSeconds(ms) == IF ms >= 0 THEN ms \div 1000 ELSE -((-ms) \div 1000)

\* HeaderMap::new()
NoHeaders == [n \in {} |-> <<>>]

\* HeaderMap::contains_key
ContainsKey(h, k) == k \in DOMAIN h

\* HeaderMap::insert / append on a name that is not yet present
Insert(h, k, v) == [n \in (DOMAIN h) \cup {k} |-> IF n = k THEN v ELSE h[n]]

\* RenderedBody
BodyEmpty == [kind |-> "Empty", data |-> <<>>]
BodyStatic(d) == [kind |-> "Static", data |-> d]
BodyBytes(d) == [kind |-> "Bytes", data |-> d]
BodyString(d) == [kind |-> "String", data |-> d]

\* The body of Rendered<()>
BodyUnit == [kind |-> "Unit", data |-> <<>>]

\* Rendered::with_body
WithBody(r, body) ==
    [code |-> r.code, headers |-> r.headers, body |-> body,
     mime |-> r.mime, ttl |-> r.ttl, immutable |-> r.immutable]

\* Option<&String> of ctx.query.get("t")
NoT == [some |-> FALSE, s |-> <<>>]
SomeT(s) == [some |-> TRUE, s |-> s]

----------------------------------------------------------------------------
(* router.rs, servable/*.rs: the Servable implementations.  A Servable is  *)
(* a record; `kind` selects the implementation.                            *)

Servable(kind, id, mime, ttl, private, code, to) ==
    [kind |-> kind, id |-> id, mime |-> mime, ttl |-> ttl,
     private |-> private, code |-> code, to |-> to]

\* Default404 {}
Default404 == Servable("Default404", "default404", NoMime, NoTtl, FALSE, 404, <<>>)

\* StaticAsset { bytes, mime, ttl }
StaticAsset(id, mime, ttl) == Servable("StaticAsset", id, mime, ttl, FALSE, 200, <<>>)

\* HtmlPage { response_code, ttl, private, .. }
HtmlPage(id, code, ttl, private) == Servable("HtmlPage", id, Mime("Html"), ttl, private, code, <<>>)

\* Redirect { to, code }
Redirect(to, code) == Servable("Redirect", "redirect", NoMime, NoTtl, FALSE, code, to)

\* <Default404 as Servable>::head
Default404Head ==
    [code |-> 404, body |-> BodyUnit, ttl |-> Days(1), immutable |-> TRUE,
     headers |-> NoHeaders, mime |-> Mime("Html")]

\* <Default404 as Servable>::render
Default404Render == WithBody(Default404Head, BodyEmpty)

\* A faulty `transform` match: the chain is parsed whatever the MIME is
AssetTransformAnyMime(sv, t) ==
    IF ~t.some
    THEN [has |-> FALSE, parsed |-> Ok(<<>>)]
    ELSE [has |-> TRUE, parsed |-> TransformerChainFromStr(t.s)]

\* The `transform` match shared by StaticAsset::head and StaticAsset::render:
\* Ok(<<>>) stands for None only when `has` is FALSE.
AssetTransform(sv, t) ==
    IF ~MimeIsImage(sv.mime) \/ ~t.some
    THEN [has |-> FALSE, parsed |-> Ok(<<>>)]
    ELSE [has |-> TRUE, parsed |-> TransformerChainFromStr(t.s)]

\* .unwrap_or(self.mime.clone()) of StaticAsset::head
MimeOr(mime, default) == IF mime # NoMime THEN mime ELSE default

\* StaticAsset::head after the `transform` match
StaticAssetHeadOf(sv, tr) ==
    IF tr.has /\ ~tr.parsed.ok THEN
        [code |-> 400, body |-> BodyUnit, ttl |-> sv.ttl, immutable |-> FALSE,
         headers |-> NoHeaders, mime |-> NoMime]
    ELSE IF tr.has THEN
        [code |-> 200, body |-> BodyUnit, ttl |-> sv.ttl, immutable |-> FALSE,
         headers |-> NoHeaders,
         mime |-> MimeOr(OutputMime(tr.parsed.val, sv.mime), sv.mime)]
    ELSE
        [code |-> 200, body |-> BodyUnit, ttl |-> sv.ttl, immutable |-> FALSE,
         headers |-> NoHeaders, mime |-> sv.mime]

\* <StaticAsset as Servable>::head
StaticAssetHead(sv, t) == StaticAssetHeadOf(sv, AssetTransform(sv, t))

\* What the spawned transform task can come to: transform_bytes returns
\* Ok, transform_bytes returns an ImageError, or the task fails to run
\* (a JoinError).
TaskOutcomes == {"ok", "image_error", "join_error"}

\* StaticAsset::render reaches tokio::task::spawn_blocking
AssetSpawns(tr) == tr.has /\ tr.parsed.ok

AssetSpawnsTask(sv, t) == AssetSpawns(AssetTransform(sv, t))

\* A faulty `match res`: the task's failure is not looked at
StaticAssetTransformedUnchecked(sv, outcome, mime) ==
    [code |-> 200, body |-> BodyBytes(<<"transformed", sv.id>>),
     ttl |-> sv.ttl, immutable |-> FALSE, headers |-> NoHeaders, mime |-> mime]

\* The `match res` of StaticAsset::render: `mime` is the MIME
\* transform_bytes returned, NoMime for its NotAnImage error
StaticAssetTransformed(sv, outcome, mime) ==
    IF outcome = "join_error" THEN
        [code |-> 500, body |-> BodyString(<<"Error while transforming image">>),
         ttl |-> NoTtl, immutable |-> FALSE, headers |-> NoHeaders, mime |-> NoMime]
    ELSE IF outcome = "ok" /\ mime # NoMime THEN
        [code |-> 200, body |-> BodyBytes(<<"transformed", sv.id>>),
         ttl |-> sv.ttl, immutable |-> FALSE, headers |-> NoHeaders, mime |-> mime]
    ELSE
        [code |-> 500, body |-> BodyString(<<"error while processing image">>),
         ttl |-> sv.ttl, immutable |-> FALSE, headers |-> NoHeaders, mime |-> NoMime]

\* StaticAsset::render after the `transform` match
StaticAssetRenderOf(sv, tr, outcome) ==
    IF tr.has /\ ~tr.parsed.ok THEN
        [code |-> 400, body |-> BodyString(tr.parsed.err), ttl |-> sv.ttl,
         immutable |-> FALSE, headers |-> NoHeaders, mime |-> NoMime]
    ELSE IF tr.has THEN
        StaticAssetTransformed(sv, outcome, TransformBytesMime(tr.parsed.val, sv.mime))
    ELSE
        [code |-> 200, body |-> BodyStatic(<<"bytes", sv.id>>), ttl |-> sv.ttl,
         immutable |-> FALSE, headers |-> NoHeaders, mime |-> sv.mime]

\* <StaticAsset as Servable>::render; `outcome` is what the spawned task
\* came to (read only when a task was spawned)
StaticAssetRender(sv, t, outcome) == StaticAssetRenderOf(sv, AssetTransform(sv, t), outcome)

\* <HtmlPage as Servable>::head
HtmlPageHead(sv) ==
    [code |-> sv.code, body |-> BodyUnit, ttl |-> sv.ttl, immutable |-> sv.private,
     headers |-> NoHeaders, mime |-> Mime("Html")]

\* <HtmlPage as Servable>::render
HtmlPageRender(sv) == WithBody(HtmlPageHead(sv), BodyString(<<"html", sv.id>>))

\* <Redirect as Servable>::head
RedirectHead(sv) ==
    [code |-> sv.code, headers |-> Insert(NoHeaders, "location", sv.to),
     body |-> BodyUnit, ttl |-> NoTtl, immutable |-> TRUE, mime |-> NoMime]

\* <Redirect as Servable>::render
RedirectRender(sv) == WithBody(RedirectHead(sv), BodyEmpty)

\* Servable::head, dispatched on the implementation
ServableHead(sv, ctx) ==
    CASE sv.kind = "Default404" -> Default404Head
      [] sv.kind = "StaticAsset" -> StaticAssetHead(sv, ctx.t)
      [] sv.kind = "HtmlPage" -> HtmlPageHead(sv)
      [] sv.kind = "Redirect" -> RedirectHead(sv)

\* Servable::render, dispatched on the implementation
ServableRender(sv, ctx, outcome) ==
    CASE sv.kind = "Default404" -> Default404Render
      [] sv.kind = "StaticAsset" -> StaticAssetRender(sv, ctx.t, outcome)
      [] sv.kind = "HtmlPage" -> HtmlPageRender(sv)
      [] sv.kind = "Redirect" -> RedirectRender(sv)

\* render suspends on a spawned blocking task
SpawnsTask(sv, ctx) == sv.kind = "StaticAsset" /\ AssetSpawnsTask(sv, ctx.t)

\* The metadata head and render must agree on
Metadata(r) == [code |-> r.code, mime |-> r.mime, ttl |-> r.ttl, immutable |-> r.immutable]

----------------------------------------------------------------------------
(* router.rs: ServableRouter::call, after the method check *)

\* The DEL character (0x7F) as one character.  The request-target parser
\* lets it through in a path; HeaderValue::from_str rejects it, as it
\* rejects the control characters, which no path can hold.
Del == "U+007F"

\* HeaderValue::from_str(s).is_ok()
HeaderValueOk(s) == \A i \in 1..Len(s) : s[i] # Del

\* str::replace("//", "/"): non-overlapping matches, left to right
RECURSIVE ReplaceDoubleSlash(_)
ReplaceDoubleSlash(s) ==
    IF Len(s) < 2 THEN s
    ELSE IF s[1] = "/" /\ s[2] = "/"
         THEN <<"/">> \o ReplaceDoubleSlash(SubSeq(s, 3, Len(s)))
         ELSE <<s[1]>> \o ReplaceDoubleSlash(Tail(s))

\* A faulty loop: one pass of replace and no more
CollapseSlashesOnce(s) == ReplaceDoubleSlash(s)

\* while new_route.contains("//") { new_route = new_route.replace("//", "/") }
RECURSIVE CollapseSlashes(_)
CollapseSlashes(s) ==
    IF Contains(s, <<"/", "/">>) THEN CollapseSlashes(ReplaceDoubleSlash(s)) ELSE s

\* (route.ends_with('/') && route != "/") || route.contains("//")
NeedsNormalize(route) ==
    (EndsWith(route, <<"/">>) /\ route # <<"/">>) \/ Contains(route, <<"/", "/">>)

\* A faulty normalization: trim_end_matches('/') in place of
\* trim_matches('/'), so the leading separator is doubled
NormalizedRouteTrimEnd(route) == <<"/">> \o TrimEndChars(CollapseSlashes(route), {"/"})

\* format!("/{new_route}") of the normalization branch
NormalizedRoute(route) == <<"/">> \o TrimMatches(CollapseSlashes(route), "/")

\* A Response: status, headers, body
Response(code, headers, body) == [code |-> code, headers |-> headers, body |-> body]

\* The 405 answer of call()
MethodNotAllowed ==
    Response(405, Insert(NoHeaders, "accept", <<"G", "E", "T", ",", "H", "E", "A", "D">>),
             BodyEmpty)

\* A faulty redirect: the `t` value of the query is carried into the
\* Location
NormalizeRedirectKeepsQuery(route) ==
    IF HeaderValueOk(NormalizedRoute(route))
    THEN Response(308,
                  Insert(NoHeaders, "location",
                         IF req.t.some
                         THEN NormalizedRoute(route) \o <<"?", "t", "=">> \o req.t.s
                         ELSE NormalizedRoute(route)),
                  BodyEmpty)
    ELSE Response(400, NoHeaders, BodyEmpty)

\* The normalization branch of call(): 308 with Location, or 400
NormalizeRedirect(route) ==
    IF HeaderValueOk(NormalizedRoute(route))
    THEN Response(308, Insert(NoHeaders, "location", NormalizedRoute(route)), BodyEmpty)
    ELSE Response(400, NoHeaders, BodyEmpty)

\* A faulty lookup: a key that is a prefix of the route also matches
LookupPrefix(table, nf, route) ==
    IF route \in DOMAIN table THEN table[route]
    ELSE IF \E k \in DOMAIN table : StartsWith(route, k)
    THEN table[CHOOSE k \in DOMAIN table : StartsWith(route, k)]
    ELSE nf

\* pages.get(&ctx.route).unwrap_or(&notfound)
Lookup(table, nf, route) == IF route \in DOMAIN table THEN table[route] ELSE nf

\* format!("{}", n) for n >= 0
RECURSIVE ToDigits(_)
ToDigits(n) ==
    LET d == CASE n % 10 = 0 -> "0" [] n % 10 = 1 -> "1" [] n % 10 = 2 -> "2"
               [] n % 10 = 3 -> "3" [] n % 10 = 4 -> "4" [] n % 10 = 5 -> "5"
               [] n % 10 = 6 -> "6" [] n % 10 = 7 -> "7" [] n % 10 = 8 -> "8"
               [] n % 10 = 9 -> "9"
    IN  IF n < 10 THEN <<d>> ELSE ToDigits(n \div 10) \o <<d>>

\* A faulty max-age: the .max(1) is left out
MaxAgeNoFloor(ttl) == IF ttl.some THEN NumSeconds(ttl.ms) ELSE 1

\* rend.ttl.map(|x| x.num_seconds()).unwrap_or(1).max(1)
MaxAge(ttl) ==
    LET n == IF ttl.some THEN NumSeconds(ttl.ms) ELSE 1
    IN  IF n > 1 THEN n ELSE 1

\* The Cache-Control value the router builds
CacheControlValue(rend) ==
    LET v1 == IF rend.immutable
              THEN <<"i", "m", "m", "u", "t", "a", "b", "l", "e", ",", " ">>
              ELSE <<>>
        v2 == v1 \o <<"p", "u", "b", "l", "i", "c", ",", " ">>
        v3 == v2 \o <<"m", "a", "x", "-", "a", "g", "e", "=">>
                 \o ToDigits(MaxAge(rend.ttl)) \o <<",", " ">>
    IN  TrimEndChars(Trim(v3), {","})

\* A faulty header block: Content-Type is set from the MIME even when the
\* Servable set one
TweakHeadersOverwrite(rend) ==
    LET h1 == IF ~ContainsKey(rend.headers, "cache-control")
              THEN Insert(rend.headers, "cache-control", CacheControlValue(rend))
              ELSE rend.headers
        h2 == IF ~ContainsKey(h1, "accept-ch")
              THEN Insert(h1, "accept-ch", <<"Sec-CH-UA-Mobile">>)
              ELSE h1
        h3 == IF rend.mime # NoMime
              THEN Insert(h2, "content-type", <<MimeToString(rend.mime)>>)
              ELSE h2
    IN  [rend EXCEPT !.headers = h3]

\* The "Tweak headers" block of call()
TweakHeaders(rend) ==
    LET h1 == IF ~ContainsKey(rend.headers, "cache-control")
              THEN Insert(rend.headers, "cache-control", CacheControlValue(rend))
              ELSE rend.headers
        h2 == IF ~ContainsKey(h1, "accept-ch")
              THEN Insert(h1, "accept-ch", <<"Sec-CH-UA-Mobile">>)
              ELSE h1
        h3 == IF ~ContainsKey(h2, "content-type") /\ rend.mime # NoMime
              THEN Insert(h2, "content-type", <<MimeToString(rend.mime)>>)
              ELSE h2
    IN  [rend EXCEPT !.headers = h3]

\* HeaderValue::from_str(&mime.to_string()).unwrap() of the "Tweak headers"
\* block panics: the Content-Type is to be set from a MIME whose string
\* form is not a valid header value
ContentTypePanics(rend) ==
    /\ ~ContainsKey(rend.headers, "content-type")
    /\ rend.mime # NoMime
    /\ ~HeaderValueOk(<<MimeToString(rend.mime)>>)

\* axum's IntoResponse for the body of the final match: a string body
\* brings `text/plain; charset=utf-8`, a bytes body brings
\* `application/octet-stream`, no body brings nothing
BodyDefaultHeaders(body) ==
    CASE body.kind = "String" ->
            Insert(NoHeaders, "content-type", <<"text/plain; charset=utf-8">>)
      [] body.kind \in {"Static", "Bytes"} ->
            Insert(NoHeaders, "content-type", <<"application/octet-stream">>)
      [] OTHER -> NoHeaders

\* HeaderMap::extend: the entries of `over` replace those of `base`
Extend(base, over) ==
    [n \in (DOMAIN base) \cup (DOMAIN over) |-> IF n \in DOMAIN over THEN over[n] ELSE base[n]]

\* The final match of call(): (code, headers, body).into_response()
IntoResponse(rend) ==
    Response(rend.code, Extend(BodyDefaultHeaders(rend.body), rend.headers), rend.body)

\* Everything call() does with the Rendered value a Servable returned
Finalize(rend) == IntoResponse(TweakHeaders(rend))

----------------------------------------------------------------------------
(* Inputs *)

Methods == {"GET", "HEAD", "POST"}

PathChars == {"/", "a"}

\* Request paths: http::Uri::path always starts with `/`
RequestPaths ==
    {p \in SeqsUpTo(PathChars, MaxPathLen) : p # <<>> /\ p[1] = "/"}
        \cup {<<"/", "a", "/", "/", "b", "/">>, <<"/", Del, "/">>}

\* Route strings handed to add_page, valid or not: those that start with
\* `/`, the empty one, and two more that add_page must refuse
RouteArgs ==
    {r \in SeqsUpTo(PathChars, MaxRouteLen) : r = <<>> \/ r[1] = "/"}
        \cup {<<"a">>, <<"/", "/", "a">>}

ChainMaxdim == <<"m", "a", "x", "d", "i", "m", "(", "1", "0", ",", "1", "0", ")">>
ChainTwoFormats ==
    <<"f", "o", "r", "m", "a", "t", "(", "p", "n", "g", ")", ";",
      "f", "o", "r", "m", "a", "t", "(", "g", "i", "f", ")">>
ChainUnknown == <<"b", "l", "u", "r", "(", "1", ")">>

\* Values of the `t` query parameter
TArgs == {NoT, SomeT(<<>>), SomeT(ChainMaxdim), SomeT(ChainTwoFormats), SomeT(ChainUnknown)}

ImgAsset == StaticAsset("img", Mime("Png"), Days(14))
TxtAsset == StaticAsset("txt", Mime("Text"), NoTtl)
HomePage == HtmlPage("home", 200, Ttl(1500), TRUE)
OldRedirect == Redirect(<<"/", "a">>, 307)
MissingPage == HtmlPage("missing", 404, Ttl(0), FALSE)

\* Servables handed to add_page / with_404
PageArgs == {ImgAsset, TxtAsset, HomePage, OldRedirect}
NotFoundArgs == {MissingPage}

----------------------------------------------------------------------------
(* State *)

NoPanic == "none"

NoTable == [r \in {} |-> Default404]

NoRendered ==
    [code |-> 0, headers |-> NoHeaders, body |-> BodyUnit, mime |-> NoMime,
     ttl |-> NoTtl, immutable |-> FALSE]

NoResponse == Response(0, NoHeaders, BodyEmpty)

\* The request: the future returned by call() and what it has done.
\*   pc       idle | pending (call() returned the future) | blocking (render
\*            awaits the spawned transform task) | done (the response exists)
\*   nf       the `notfound` clone the future captured
\*   lookup   pages.get ran;  hit: it returned Some;  page: the Servable chosen
\*   invoked  the Servable methods the router called
\*   rend     the Rendered value the Servable returned
IdleReq ==
    [pc |-> "idle", method |-> "", path |-> <<>>, t |-> NoT, nf |-> Default404,
     lookup |-> FALSE, hit |-> FALSE, page |-> Default404, invoked |-> {},
     rend |-> NoRendered, resp |-> NoResponse]

NoProbe == [fn |-> "none", pc |-> "idle", in |-> <<>>, out |-> <<>>]

\* ServableRouter::new()
InitRouter ==
    /\ pages = NoTable
    /\ notfound = Default404
    /\ panic = NoPanic
    /\ holders = 0
    /\ req = IdleReq

Init ==
    /\ InitRouter
    /\ probe = NoProbe

\* The future still holds its clone of the `pages` Arc
Holding == req.pc \in {"pending", "blocking"}

\* Arc::strong_count(&self.pages)
StrongCount == 1 + holders + (IF Holding THEN 1 ELSE 0)

\* A faulty add_page: the `//` check is left out
AddPagePanicNoDoubleSlash(route) ==
    IF ~StartsWith(route, <<"/">>) THEN "route must start with /"
    ELSE IF EndsWith(route, <<"/">>) /\ route # <<"/">> THEN "route must not end with /"
    ELSE IF StrongCount > 1 THEN "add_pages called after service was started"
    ELSE NoPanic

\* The panic add_page raises for `route`, NoPanic when it inserts
AddPagePanic(route) ==
    IF ~StartsWith(route, <<"/">>) THEN "route must start with /"
    ELSE IF EndsWith(route, <<"/">>) /\ route # <<"/">> THEN "route must not end with /"
    ELSE IF Contains(route, <<"/", "/">>) THEN "route must not contain //"
    ELSE IF StrongCount > 1 THEN "add_pages called after service was started"
    ELSE NoPanic

----------------------------------------------------------------------------
(* Actions *)

\* A faulty insert: replacing the Servable of a route drops the other routes
AddPageOutcomeDropsOthers(route, page, msg) ==
    /\ panic = NoPanic
    /\ ~(/\ msg = NoPanic
          /\ route \notin DOMAIN pages
          /\ Cardinality(DOMAIN pages) >= MaxPages)
    /\ IF msg # NoPanic
       THEN /\ panic' = msg
            /\ holders' = 0
            /\ req' = IdleReq
            /\ UNCHANGED pages
       ELSE /\ pages' = [r \in (IF route \in DOMAIN pages THEN {route}
                                    ELSE (DOMAIN pages) \cup {route}) |->
                            IF r = route THEN page ELSE pages[r]]
            /\ UNCHANGED <<panic, holders, req>>
    /\ UNCHANGED <<notfound, probe>>

\* add_page once the route checks and Arc::get_mut have come to `msg`:
\* the panic, or the insert.  A panic ends the program: the router, its
\* clones and the futures are dropped with it.
AddPageOutcome(route, page, msg) ==
    /\ panic = NoPanic
    /\ ~(/\ msg = NoPanic
          /\ route \notin DOMAIN pages
          /\ Cardinality(DOMAIN pages) >= MaxPages)
    /\ IF msg # NoPanic
       THEN /\ panic' = msg
            /\ holders' = 0
            /\ req' = IdleReq
            /\ UNCHANGED pages
       ELSE /\ pages' = [r \in (DOMAIN pages) \cup {route} |->
                            IF r = route THEN page ELSE pages[r]]
            /\ UNCHANGED <<panic, holders, req>>
    /\ UNCHANGED <<notfound, probe>>

\* ServableRouter::add_page
AddPage(route, page) == AddPageOutcome(route, page, AddPagePanic(route))

\* ServableRouter::with_404
WithNotFound(page) ==
    /\ panic = NoPanic
    /\ notfound' = page
    /\ UNCHANGED <<pages, panic, holders, req, probe>>

\* <ServableRouter as Clone>::clone, or call() for another request: one
\* more holder of the `pages` Arc
AddHolder ==
    /\ panic = NoPanic
    /\ holders < MaxHolders
    /\ holders' = holders + 1
    /\ UNCHANGED <<pages, notfound, panic, req, probe>>

\* A clone of the router, or the future of another request, is dropped
DropHolder ==
    /\ panic = NoPanic
    /\ holders > 0
    /\ holders' = holders - 1
    /\ UNCHANGED <<pages, notfound, panic, req, probe>>

\* ServableRouter::call, the synchronous part: the method check, then the
\* clones of `pages` and `notfound` moved into the returned future
Call(method, path, t) ==
    /\ panic = NoPanic
    /\ req.pc = "idle"
    /\ IF method # "GET" /\ method # "HEAD"
       THEN req' = [IdleReq EXCEPT !.pc = "done", !.method = method, !.path = path,
                                   !.t = t, !.resp = MethodNotAllowed]
       ELSE req' = [IdleReq EXCEPT !.pc = "pending", !.method = method, !.path = path,
                                   !.t = t, !.nf = notfound]
    /\ UNCHANGED <<pages, notfound, panic, holders, probe>>

\* The request once the Servable returned `rend` and the router built the
\* response from it
Responded(r, rend) == [r EXCEPT !.pc = "done", !.rend = rend, !.resp = Finalize(rend)]

\* The request once the router chose `page` and called its `op`
Dispatched(r, hit, page, op) ==
    [r EXCEPT !.nf = Default404, !.lookup = TRUE, !.hit = hit, !.page = page,
              !.invoked = {<<op, page>>}]

\* A faulty dispatch: HEAD is answered by calling render and dropping the
\* body
PolledRenderForHead(r, ctx, hit, page) ==
    IF NeedsNormalize(r.path) THEN
        [r EXCEPT !.pc = "done", !.nf = Default404, !.resp = NormalizeRedirect(r.path)]
    ELSE IF SpawnsTask(page, ctx) THEN
        [Dispatched(r, hit, page, "render") EXCEPT !.pc = "blocking"]
    ELSE IF r.method = "HEAD" THEN
        Responded(Dispatched(r, hit, page, "render"),
                  [ServableRender(page, ctx, "ok") EXCEPT !.body = BodyEmpty])
    ELSE
        Responded(Dispatched(r, hit, page, "render"), ServableRender(page, ctx, "ok"))

\* The async block of call(): the normalization redirect, or the lookup and
\* the Servable's head/render, up to the response or up to the await of a
\* spawned transform task
Polled(r, ctx, hit, page) ==
    IF NeedsNormalize(r.path) THEN
        [r EXCEPT !.pc = "done", !.nf = Default404, !.resp = NormalizeRedirect(r.path)]
    ELSE IF r.method = "HEAD" THEN
        Responded(Dispatched(r, hit, page, "head"),
                  WithBody(ServableHead(page, ctx), BodyEmpty))
    ELSE IF SpawnsTask(page, ctx) THEN
        [Dispatched(r, hit, page, "render") EXCEPT !.pc = "blocking"]
    ELSE
        Responded(Dispatched(r, hit, page, "render"), ServableRender(page, ctx, "ok"))

\* The future of call() is polled
Poll ==
    /\ panic = NoPanic
    /\ req.pc = "pending"
    /\ req' = Polled(req, [route |-> req.path, t |-> req.t],
                     req.path \in DOMAIN pages, Lookup(pages, req.nf, req.path))
    /\ UNCHANGED <<pages, notfound, panic, holders, probe>>

\* The spawned transform task ends with `outcome`; render returns and the
\* router finishes the response
TaskDone(outcome) ==
    /\ panic = NoPanic
    /\ req.pc = "blocking"
    /\ req' = Responded(req, ServableRender(req.page, [route |-> req.path, t |-> req.t],
                                            outcome))
    /\ UNCHANGED <<pages, notfound, panic, holders, probe>>

\* The caller drops the future before it completes
Cancel ==
    /\ panic = NoPanic
    /\ req.pc \in {"pending", "blocking"}
    /\ req' = IdleReq
    /\ UNCHANGED <<pages, notfound, panic, holders, probe>>

\* The caller takes the response
Consume ==
    /\ panic = NoPanic
    /\ req.pc = "done"
    /\ req' = IdleReq
    /\ UNCHANGED <<pages, notfound, panic, holders, probe>>

Next ==
    \/ \E route \in RouteArgs, page \in PageArgs : AddPage(route, page)
    \/ \E page \in NotFoundArgs \cup {Default404} : WithNotFound(page)
    \/ AddHolder
    \/ DropHolder
    \/ \E method \in Methods, path \in RequestPaths, t \in TArgs : Call(method, path, t)
    \/ Poll
    \/ \E outcome \in TaskOutcomes : TaskDone(outcome)
    \/ Cancel
    \/ Consume

Spec == Init /\ [][Next]_vars

----------------------------------------------------------------------------
(* TransformerChain::from_str applied to chain strings *)

FragMaxdim100 == <<"m", "a", "x", "d", "i", "m", "(", "1", "0", "0", ",", "1", "0", "0", ")">>
FragMaxdim10 == <<"m", "a", "x", "d", "i", "m", "(", "1", "0", ",", "1", "0", ")">>
FragFormatPng == <<"f", "o", "r", "m", "a", "t", "(", "p", "n", "g", ")">>
FragFormatGif == <<"f", "o", "r", "m", "a", "t", "(", "g", "i", "f", ")">>
FragCrop == <<"c", "r", "o", "p", "(", "5", ",", "5", ",", "n", ")">>
FragSpaced == <<" ", "f", "o", "r", "m", "a", "t", "(", " ", "p", "n", "g", " ", ")", " ">>

\* The pieces chain strings are built from
StepFragments ==
    {FragMaxdim100, FragMaxdim10, FragFormatPng, FragFormatGif, FragCrop,
     FragSpaced, ChainUnknown, <<>>}

\* Chain strings: up to MaxSteps pieces joined by `;`
ChainInputs == {Join(ps, <<";">>) : ps \in SeqsUpTo(StepFragments, MaxSteps)}

InitChain ==
    /\ InitRouter
    /\ probe \in {[fn |-> "chain", pc |-> "ready", in |-> c, out |-> Err(<<>>)] :
                    c \in ChainInputs}

\* TransformerChain::from_str(probe.in)
ParseChain ==
    /\ probe.fn = "chain"
    /\ probe.pc = "ready"
    /\ probe' = [probe EXCEPT !.pc = "done", !.out = TransformerChainFromStr(probe.in)]
    /\ UNCHANGED <<pages, notfound, panic, holders, req>>

NextChain == ParseChain

SpecChain == InitChain /\ [][NextChain]_vars

----------------------------------------------------------------------------
(* The header block and the final match of call() applied to Rendered     *)
(* values                                                                  *)

\* Option<TimeDelta> values: absent, negative, zero, sub-second, whole and
\* fractional seconds, a day
TtlInputs ==
    {NoTtl, Days(1)} \cup {Ttl(k * 500) : k \in (-3)..(2 * MaxTtlSecs + 1)}

\* Headers a Servable may have set itself
ServableHeaders ==
    [n \in {"cache-control", "accept-ch", "content-type", "x-extra"} |->
        CASE n = "cache-control" -> <<"n", "o", "-", "s", "t", "o", "r", "e">>
          [] n = "accept-ch" -> <<"Sec-CH-UA">>
          [] n = "content-type" -> <<"application/custom">>
          [] n = "x-extra" -> <<"1">>]

HeaderInputs == {[n \in ks |-> ServableHeaders[n]] : ks \in SUBSET DOMAIN ServableHeaders}

BodyInputs ==
    {BodyEmpty, BodyString(<<"text">>), BodyStatic(<<"bytes">>), BodyBytes(<<"vec">>)}

\* OtherMime(Del) is MimeType::Other of a text holding the DEL character
MimeInputs == {NoMime, Mime("Png"), Mime("Html"), OtherMime("x/custom"), OtherMime(Del)}

\* Rendered<RenderedBody> values a Servable may return
RenderedInputs ==
    {[code |-> 200, headers |-> h, body |-> b, mime |-> m, ttl |-> t, immutable |-> i] :
        h \in HeaderInputs, b \in BodyInputs, m \in MimeInputs, t \in TtlInputs,
        i \in BOOLEAN}

InitFinalize ==
    /\ InitRouter
    /\ probe \in {[fn |-> "finalize", pc |-> "ready", in |-> r, out |-> NoResponse] :
                    r \in RenderedInputs}

\* call() from the value the Servable returned to the response, or to the
\* panic of the future
FinalizeRendered ==
    /\ probe.fn = "finalize"
    /\ probe.pc = "ready"
    /\ probe' = IF ContentTypePanics(probe.in)
                THEN [probe EXCEPT !.pc = "panicked"]
                ELSE [probe EXCEPT !.pc = "done", !.out = Finalize(probe.in)]
    /\ UNCHANGED <<pages, notfound, panic, holders, req>>

NextFinalize == FinalizeRendered

SpecFinalize == InitFinalize /\ [][NextFinalize]_vars

----------------------------------------------------------------------------
(* f32 and u32 arithmetic of the transformers.  A non-negative f32 is      *)
(* [m, e], the value m * 2^e with 2^23 <= m < 2^24, or m = 0 for zero;     *)
(* every operation rounds to nearest, ties to even, as the hardware does.  *)

F32Zero == [m |-> 0, e |-> 0]

\* Shift a non-zero mantissa below 2^24 up into 2^23 .. 2^24 - 1
RECURSIVE F32Norm(_, _)
F32Norm(m, e) ==
    IF m = 0 THEN F32Zero
    ELSE IF m >= 8388608 THEN [m |-> m, e |-> e]
    ELSE F32Norm(m * 2, e - 1)

\* Round q (with remainder `rem` out of 2 * half) to nearest, ties to even
F32RoundedUp(q, rem, half) == rem > half \/ (rem = half /\ q % 2 = 1)

F32Carry(m, e) == IF m = 16777216 THEN [m |-> 8388608, e |-> e + 1] ELSE [m |-> m, e |-> e]

F32Round(q, rem, half, e) ==
    F32Carry(IF F32RoundedUp(q, rem, half) THEN q + 1 ELSE q, e)

\* Number of low bits to drop for n to fit 24 bits
RECURSIVE F32Excess(_)
F32Excess(n) == IF n < 16777216 THEN 0 ELSE 1 + F32Excess(n \div 2)

F32FromWide(n, k) == F32Round(n \div (2 ^ k), n % (2 ^ k), 2 ^ (k - 1), k)

\* `n as f32` for a u32 the model represents
F32FromU32(n) == IF n < 16777216 THEN F32Norm(n, 0) ELSE F32FromWide(n, F32Excess(n))

\* The 48-bit product hi * 2^24 + lo of two mantissas, rounded to 24 bits
F32MulRound(hi, lo, e) ==
    IF hi >= 8388608 THEN F32Round(hi, lo, 8388608, e + 24)
    ELSE F32Round(hi * 2 + lo \div 8388608, lo % 8388608, 4194304, e + 23)

F32MulSum(a1b1, mid, lo_sum, e) ==
    F32MulRound(a1b1 + mid \div 4096 + lo_sum \div 16777216, lo_sum % 16777216, e)

F32MulMid(a1, a0, b1, b0, mid, e) ==
    F32MulSum(a1 * b1, mid, a0 * b0 + (mid % 4096) * 4096, e)

F32MulParts(a1, a0, b1, b0, e) == F32MulMid(a1, a0, b1, b0, a1 * b0 + a0 * b1, e)

\* a * b
F32Mul(a, b) ==
    IF a.m = 0 \/ b.m = 0 THEN F32Zero
    ELSE F32MulParts(a.m \div 4096, a.m % 4096, b.m \div 4096, b.m % 4096, a.e + b.e)

\* Long division: <<quotient, remainder>> of (q * d + r) * 2^n by d
RECURSIVE F32DivSteps(_, _, _, _)
F32DivSteps(q, r, d, n) ==
    IF n = 0 THEN <<q, r>>
    ELSE IF 2 * r >= d THEN F32DivSteps(2 * q + 1, 2 * r - d, d, n - 1)
    ELSE F32DivSteps(2 * q, 2 * r, d, n - 1)

F32DivRound(qr, d, e) == F32Round(qr[1], 2 * qr[2], d, e)

F32DivBits(a, b, n) ==
    F32DivRound(F32DivSteps(a.m \div b.m, a.m % b.m, b.m, n), b.m, a.e - b.e - n)

\* a / b for b > 0
F32Div(a, b) ==
    IF a.m = 0 THEN F32Zero
    ELSE F32DivBits(a, b, IF a.m >= b.m THEN 23 ELSE 24)

\* a <= b
F32Leq(a, b) ==
    IF a.m = 0 THEN TRUE
    ELSE IF b.m = 0 THEN FALSE
    ELSE a.e < b.e \/ (a.e = b.e /\ a.m <= b.m)

\* f32::min
F32Min(a, b) == IF F32Leq(a, b) THEN a ELSE b

\* `x as u32`: rounds toward zero; a value the model does not represent is
\* kept as its largest integer
F32ToU32(a) ==
    IF a.m = 0 \/ a.e < -23 THEN 0
    ELSE IF a.e < 0 THEN a.m \div (2 ^ (-a.e))
    ELSE IF a.e > 7 THEN 2147483647
    ELSE IF a.e = 7 /\ a.m = 16777215 THEN 2147483520
    ELSE a.m * (2 ^ a.e)

\* The f32 a decimal text of `hundredths` hundredths parses to
F32FromHundredths(hundredths) == F32Div(F32FromU32(hundredths), F32FromU32(100))

\* ((dim as f32) * pct / 100.0) as u32
PercentOf(dim, pct) ==
    F32ToU32(F32Div(F32Mul(F32FromU32(dim), F32FromHundredths(pct)), F32FromU32(100)))

\* A u32 as two 16-bit halves, the value hi * 65536 + lo
U32(n) == [hi |-> n \div 65536, lo |-> n % 65536]

\* u32 subtraction wrapping modulo 2^32
U32WrappingSub(a, b) ==
    [hi |-> (a.hi - b.hi - (IF a.lo < b.lo THEN 1 ELSE 0)) % 65536,
     lo |-> (a.lo - b.lo) % 65536]

\* u32 division by two
U32Half(a) == [hi |-> a.hi \div 2, lo |-> ((a.hi % 2) * 65536 + a.lo) \div 2]

\* a <= b
U32Leq(a, b) == a.hi < b.hi \/ (a.hi = b.hi /\ a.lo <= b.lo)

\* cmp::min
U32Min(a, b) == IF U32Leq(a, b) THEN a ELSE b
----------------------------------------------------------------------------
(* transform/transformers/{maxdim,crop}.rs and transform/chain.rs: what a  *)
(* step does to an image.  A decoded image is [w, h], its dimensions; an   *)
(* image file is [format, w, h, extra], where `extra` says that the file   *)
(* holds something a decoded image does not keep (further frames,          *)
(* metadata, the encoder's own choices).                                   *)

\* Option<u32>
NoDim == [some |-> FALSE, v |-> 0]
SomeDim(v) == [some |-> TRUE, v |-> v]

\* A faulty `max_width` match: a percentage is taken as that many pixels
MaxWidthPercentAsPixels(w, img_width) ==
    CASE w.kind = "Pixels" -> SomeDim(w.v)
      [] w.kind = "WidthPercent" -> SomeDim(w.v \div 100)
      [] w.kind = "HeightPercent" -> NoDim

\* The `max_width` match of MaxDimTransformer::target_dim
MaxWidth(w, img_width) ==
    CASE w.kind = "Pixels" -> SomeDim(w.v)
      [] w.kind = "WidthPercent" -> SomeDim(PercentOf(img_width, w.v))
      [] w.kind = "HeightPercent" -> NoDim

\* The `max_height` match of MaxDimTransformer::target_dim
MaxHeight(h, img_height) ==
    CASE h.kind = "Pixels" -> SomeDim(h.v)
      [] h.kind = "HeightPercent" -> SomeDim(PercentOf(img_height, h.v))
      [] h.kind = "WidthPercent" -> NoDim

\* max.map(|x| dim <= x).unwrap_or(true)
DimFits(max, dim) == ~max.some \/ dim <= max.v

\* An f32 above every finite one: x / 0.0, which f32::min never picks
\* against a finite ratio
F32Inf == [m |-> 8388608, e |-> 200]

F32One == [m |-> 8388608, e |-> -23]

\* max.map(|x| x as f32 / dim as f32).unwrap_or(1.0)
DimRatio(max, dim) ==
    IF ~max.some THEN F32One
    ELSE IF dim = 0 THEN F32Inf
    ELSE F32Div(F32FromU32(max.v), F32FromU32(dim))

\* ((img_width as f32 * ratio) as u32, (img_height as f32 * ratio) as u32)
ScaledDim(img_width, img_height, ratio) ==
    <<F32ToU32(F32Mul(F32FromU32(img_width), ratio)),
      F32ToU32(F32Mul(F32FromU32(img_height), ratio))>>

\* A faulty target_dim: each dimension is scaled by its own ratio
TargetDimPerAxis(img_width, img_height, max_width, max_height) ==
    IF DimFits(max_width, img_width) /\ DimFits(max_height, img_height)
    THEN <<img_width, img_height>>
    ELSE <<F32ToU32(F32Mul(F32FromU32(img_width), DimRatio(max_width, img_width))),
           F32ToU32(F32Mul(F32FromU32(img_height), DimRatio(max_height, img_height)))>>

TargetDimOf(img_width, img_height, max_width, max_height) ==
    IF DimFits(max_width, img_width) /\ DimFits(max_height, img_height)
    THEN <<img_width, img_height>>
    ELSE ScaledDim(img_width, img_height,
                   F32Min(DimRatio(max_width, img_width), DimRatio(max_height, img_height)))

\* MaxDimTransformer::target_dim
TargetDim(step, img_width, img_height) ==
    TargetDimOf(img_width, img_height,
                MaxWidth(step.w, img_width), MaxHeight(step.h, img_height))

\* Rounding of a / b to the nearest integer, halves upward
RoundDiv(a, b) == (2 * a + b) \div (2 * b)

Max(a, b) == IF a >= b THEN a ELSE b
Min(a, b) == IF a <= b THEN a ELSE b

\* DynamicImage::resize: the largest size of the image's aspect ratio that
\* fits nwidth x nheight, never below one pixel
ImageResize(img, nwidth, nheight) ==
    IF img.w = 0 \/ img.h = 0 THEN [w |-> Max(nwidth, 1), h |-> Max(nheight, 1)]
    ELSE IF nwidth * img.h <= nheight * img.w
    THEN [w |-> Max(nwidth, 1), h |-> Max(RoundDiv(img.h * nwidth, img.w), 1)]
    ELSE [w |-> Max(RoundDiv(img.w * nheight, img.h), 1), h |-> Max(nheight, 1)]

\* The outcome of one step: the image it leaves, whether it replaced the
\* image, the region it asked for, and whether it panicked
StepOutcome(img, acted, x, y, w, h, panicked) ==
    [img |-> img, acted |-> acted, x |-> x, y |-> y, w |-> w, h |-> h, panic |-> panicked]

StepSkipped(img, w, h) == StepOutcome(img, FALSE, U32(0), U32(0), w, h, FALSE)

MaxDimResized(img, target) ==
    IF target[1] # img.w \/ target[2] # img.h
    THEN StepOutcome(ImageResize(img, target[1], target[2]), TRUE, U32(0), U32(0),
                     target[1], target[2], FALSE)
    ELSE StepSkipped(img, target[1], target[2])

\* <MaxDimTransformer as ImageTransformer>::transform
MaxDimTransform(step, img) == MaxDimResized(img, TargetDim(step, img.w, img.h))

\* One arm of the matches of CropTransformer::crop_dim
CropLen(d, img_width, img_height) ==
    CASE d.kind = "Pixels" -> d.v
      [] d.kind = "WidthPercent" -> PercentOf(img_width, d.v)
      [] d.kind = "HeightPercent" -> PercentOf(img_height, d.v)

\* CropTransformer::crop_dim
CropDim(step, img_width, img_height) ==
    <<CropLen(step.w, img_width, img_height), CropLen(step.h, img_width, img_height)>>

\* The builds of the crate: u32 subtraction below zero panics where
\* overflow checks are compiled in and wraps where they are not
Builds == {"checked", "wrapping"}

\* a - b on u32
Sub(a, b, build) ==
    [panic |-> build = "checked" /\ a < b, v |-> U32WrappingSub(U32(a), U32(b))]

\* (a - b) / 2
HalfOf(d) == [panic |-> d.panic, v |-> U32Half(d.v)]

\* The literal 0 of an arm
Zero == [panic |-> FALSE, v |-> U32(0)]

\* A faulty crop_pos: the float is taken from the opposite edge
CropPosOfMirrored(float, dx, dy) ==
    CASE float = "North" -> <<HalfOf(dx), dy>>
      [] float = "East" -> <<Zero, HalfOf(dy)>>
      [] float = "South" -> <<HalfOf(dx), Zero>>
      [] float = "West" -> <<dx, HalfOf(dy)>>
      [] float = "Center" -> <<HalfOf(dx), HalfOf(dy)>>
      [] float = "NorthEast" -> <<Zero, dy>>
      [] float = "SouthEast" -> <<Zero, Zero>>
      [] float = "NorthWest" -> <<dx, dy>>
      [] float = "SouthWest" -> <<dx, Zero>>

\* The match of CropTransformer::crop_pos; dx is img_width - crop_width and
\* dy is img_height - crop_height where the arm computes them
CropPosOf(float, dx, dy) ==
    CASE float = "North" -> <<HalfOf(dx), Zero>>
      [] float = "East" -> <<dx, HalfOf(dy)>>
      [] float = "South" -> <<HalfOf(dx), dy>>
      [] float = "West" -> <<Zero, HalfOf(dy)>>
      [] float = "Center" -> <<HalfOf(dx), HalfOf(dy)>>
      [] float = "NorthEast" -> <<dx, Zero>>
      [] float = "SouthEast" -> <<dx, dy>>
      [] float = "NorthWest" -> <<Zero, Zero>>
      [] float = "SouthWest" -> <<Zero, dy>>

\* CropTransformer::crop_pos
CropPos(float, img_width, img_height, crop_width, crop_height, build) ==
    CropPosOf(float, Sub(img_width, crop_width, build), Sub(img_height, crop_height, build))

\* A u32 no larger than an image dimension, as an integer
U32Small(a) == a.hi * 65536 + a.lo

\* min(len, ilen - min(pos, ilen)) of the image crate's crop
CropClamp(pos, len, ilen) == Min(len, ilen - U32Small(U32Min(pos, U32(ilen))))

\* DynamicImage::crop(x, y, width, height)
ImageCrop(img, x, y, width, height) ==
    [w |-> CropClamp(x, width, img.w), h |-> CropClamp(y, height, img.h)]

CropAt(img, pos, cd) ==
    IF pos[1].panic \/ pos[2].panic
    THEN StepOutcome(img, FALSE, pos[1].v, pos[2].v, cd[1], cd[2], TRUE)
    ELSE StepOutcome(ImageCrop(img, pos[1].v, pos[2].v, cd[1], cd[2]), TRUE,
                     pos[1].v, pos[2].v, cd[1], cd[2], FALSE)

CropCropped(step, img, cd, build) ==
    IF (cd[1] < img.w \/ cd[2] < img.h) /\ cd[1] > 0 /\ cd[2] > 0
    THEN CropAt(img, CropPos(step.float, img.w, img.h, cd[1], cd[2], build), cd)
    ELSE StepSkipped(img, cd[1], cd[2])

\* <CropTransformer as ImageTransformer>::transform
CropTransform(step, img, build) == CropCropped(step, img, CropDim(step, img.w, img.h), build)

\* One iteration of the loop of TransformerChain::transform_image
StepTransform(step, img, build) ==
    CASE step.kind = "MaxDim" -> MaxDimTransform(step, img)
      [] step.kind = "Crop" -> CropTransform(step, img, build)
      [] OTHER -> StepSkipped(img, img.w, img.h)

\* A faulty transform_image: the steps are applied last to first
RECURSIVE TransformImageReversed(_, _, _)
TransformImageReversedNext(steps, o, build) ==
    IF o.panic THEN o
    ELSE TransformImageReversed(SubSeq(steps, 1, Len(steps) - 1), o.img, build)

TransformImageReversed(steps, img, build) ==
    IF steps = <<>> THEN StepSkipped(img, img.w, img.h)
    ELSE TransformImageReversedNext(steps, StepTransform(steps[Len(steps)], img, build), build)

\* TransformerChain::transform_image: the image after the steps, or the
\* panic of the first step that panics
RECURSIVE TransformImage(_, _, _)
TransformImageNext(steps, o, build) ==
    IF o.panic THEN o ELSE TransformImage(Tail(steps), o.img, build)

TransformImage(steps, img, build) ==
    IF steps = <<>> THEN StepSkipped(img, img.w, img.h)
    ELSE TransformImageNext(steps, StepTransform(steps[1], img, build), build)

\* An image file
File(format, w, h, extra) == [format |-> format, w |-> w, h |-> h, extra |-> extra]

NoFile == File(NoFormat, 0, 0, FALSE)

\* Result<(Mime, Vec<u8>), TransformBytesError>, or the panic of a step
BytesResult(kind, mime, bytes) == [kind |-> kind, mime |-> mime, bytes |-> bytes]

\* img.write_to(&mut out_bytes, *out_format): the encoder writes the
\* pixels it is given and nothing else; `encodes` is whether it accepts them
WriteTo(img, out_format, encodes, out_mime) ==
    IF encodes THEN BytesResult("Ok", out_mime, File(out_format, img.w, img.h, FALSE))
    ELSE BytesResult("ImageError", NoMime, NoFile)

TransformBytesEncode(o, out_format, encodes, out_mime) ==
    IF o.panic THEN BytesResult("Panic", NoMime, NoFile)
    ELSE WriteTo(o.img, out_format, encodes, out_mime)

\* The zero-step shortcut transform_bytes does not have: hand the input
\* back untouched
TransformBytesPassthrough(steps, image_bytes, format, build, encodes) ==
    IF format = NoFormat THEN BytesResult("NotAnImage", NoMime, NoFile)
    ELSE IF steps = <<>>
    THEN BytesResult("Ok", MimeFromStr(FormatToMimeType(format)), image_bytes)
    ELSE IF image_bytes.format # format THEN BytesResult("ImageError", NoMime, NoFile)
    ELSE TransformBytesEncode(
             TransformImage(steps, [w |-> image_bytes.w, h |-> image_bytes.h], build),
             IF LastIsFormat(steps) THEN steps[Len(steps)].format ELSE format,
             encodes, TransformBytesOut(steps, format))

\* TransformerChain::transform_bytes after `format` is resolved:
\* image::load_from_memory_with_format fails on a file of another format
TransformBytesWith(steps, image_bytes, format, build, encodes) ==
    IF format = NoFormat THEN BytesResult("NotAnImage", NoMime, NoFile)
    ELSE IF image_bytes.format # format THEN BytesResult("ImageError", NoMime, NoFile)
    ELSE TransformBytesEncode(
             TransformImage(steps, [w |-> image_bytes.w, h |-> image_bytes.h], build),
             IF LastIsFormat(steps) THEN steps[Len(steps)].format ELSE format,
             encodes, TransformBytesOut(steps, format))

\* TransformerChain::transform_bytes with image_format = Some(mime)
TransformBytes(steps, image_bytes, image_format, build, encodes) ==
    TransformBytesWith(steps, image_bytes, FormatFromMimeType(MimeToString(image_format)),
                       build, encodes)

----------------------------------------------------------------------------
(* The transformers and transform_bytes applied to images *)

MaxImgDim == 3

\* PixelDim; a percentage is kept in hundredths
Pixels(v) == [kind |-> "Pixels", v |-> v]
WidthPercent(pct) == [kind |-> "WidthPercent", v |-> pct]
HeightPercent(pct) == [kind |-> "HeightPercent", v |-> pct]

\* Direction
Directions ==
    {"North", "East", "South", "West", "Center",
     "NorthEast", "SouthEast", "NorthWest", "SouthWest"}

\* CropTransformer::new
Crop(w, h, float) == [kind |-> "Crop", w |-> w, h |-> h, float |-> float]

\* MaxDimTransformer::new
MaxDim(w, h) == [kind |-> "MaxDim", w |-> w, h |-> h]

ImageSizes ==
    {[w |-> w, h |-> h] : w \in 1..MaxImgDim, h \in 1..MaxImgDim}
        \cup {[w |-> 200, h |-> 100], [w |-> 23, h |-> 23]}

PixelDims ==
    {Pixels(n) : n \in (0..MaxImgDim + 1) \cup {50, 100, 300}}
        \cup {WidthPercent(p) : p \in {0, 3333, 5000, 10000, 15000}}
        \cup {HeightPercent(p) : p \in {0, 5000, 10000}}

CropSteps == {Crop(w, h, f) : w \in PixelDims, h \in PixelDims, f \in Directions}

MaxDimSteps == {MaxDim(w, h) : w \in PixelDims, h \in PixelDims}

\* Chains as TransformerChain::from_str returns them
ChainTexts ==
    {<<>>, <<";">>, FragMaxdim10, FragFormatGif, FragCrop,
     FragMaxdim10 \o <<";">> \o FragFormatPng}

ParsedChains == {TransformerChainFromStr(s).val : s \in ChainTexts}

\* Steps of the chains transform_image is run on
RunSteps ==
    {MaxDim(WidthPercent(5000), HeightPercent(10000)), MaxDim(Pixels(50), Pixels(50)),
     Crop(WidthPercent(5000), HeightPercent(10000), "North"),
     Crop(Pixels(50), Pixels(50), "Center"),
     [kind |-> "Format", format |-> "Png"]}

\* The chains of up to MaxSteps of these steps that from_str lets through
RunChains ==
    {c \in SeqsUpTo(RunSteps, MaxSteps) : ChainChecked(c, NFormat(c)).ok}

Files ==
    {File(f, 200, 100, x) : f \in {"Png", "Gif"}, x \in BOOLEAN}
        \cup {File(f, 3, 2, FALSE) : f \in {"Png", "Gif", "Ico"}}

FileMimes == {Mime("Png"), Mime("Gif"), Mime("Ico"), Mime("Text")}

InitImage ==
    /\ InitRouter
    /\ \/ probe \in {[fn |-> "crop", pc |-> "ready",
                      in |-> [step |-> s, img |-> i, build |-> b],
                      out |-> StepSkipped(i, 0, 0)] :
                        s \in CropSteps, i \in ImageSizes, b \in Builds}
       \/ probe \in {[fn |-> "maxdim", pc |-> "ready",
                      in |-> [step |-> s, img |-> i, build |-> "checked"],
                      out |-> StepSkipped(i, 0, 0)] :
                        s \in MaxDimSteps, i \in ImageSizes}
       \/ probe \in {[fn |-> "transform_image", pc |-> "ready",
                      in |-> [steps |-> c, img |-> i, build |-> b],
                      out |-> StepSkipped(i, 0, 0)] :
                        c \in RunChains, i \in ImageSizes, b \in Builds}
       \/ probe \in {[fn |-> "transform_bytes", pc |-> "ready",
                      in |-> [steps |-> c, bytes |-> f, mime |-> m, build |-> b,
                              encodes |-> e],
                      out |-> BytesResult("NotAnImage", NoMime, NoFile)] :
                        c \in ParsedChains, f \in Files, m \in FileMimes,
                        b \in Builds, e \in BOOLEAN}

\* CropTransformer::transform on an image
CropImage ==
    /\ probe.fn = "crop" /\ probe.pc = "ready"
    /\ probe' = [probe EXCEPT !.pc = "done",
                              !.out = CropTransform(probe.in.step, probe.in.img, probe.in.build)]
    /\ UNCHANGED <<pages, notfound, panic, holders, req>>

\* MaxDimTransformer::transform on an image
MaxDimImage ==
    /\ probe.fn = "maxdim" /\ probe.pc = "ready"
    /\ probe' = [probe EXCEPT !.pc = "done",
                              !.out = MaxDimTransform(probe.in.step, probe.in.img)]
    /\ UNCHANGED <<pages, notfound, panic, holders, req>>

\* TransformerChain::transform_bytes on an image file
TransformFile ==
    /\ probe.fn = "transform_bytes" /\ probe.pc = "ready"
    /\ probe' = [probe EXCEPT !.pc = "done",
                              !.out = TransformBytes(probe.in.steps, probe.in.bytes,
                                                     probe.in.mime, probe.in.build,
                                                     probe.in.encodes)]
    /\ UNCHANGED <<pages, notfound, panic, holders, req>>

\* TransformerChain::transform_image on an image
RunChain ==
    /\ probe.fn = "transform_image" /\ probe.pc = "ready"
    /\ probe' = [probe EXCEPT !.pc = "done",
                              !.out = TransformImage(probe.in.steps, probe.in.img,
                                                     probe.in.build)]
    /\ UNCHANGED <<pages, notfound, panic, holders, req>>

NextImage == CropImage \/ MaxDimImage \/ TransformFile \/ RunChain

SpecImage == InitImage /\ [][NextImage]_vars

----------------------------------------------------------------------------
(* MimeType::to_string followed by MimeType::from applied to every         *)
(* recognized MimeType                                                     *)

\* The variants of MimeType but Other
MimeTags ==
    {"Blob", "Aac", "Flac", "Midi", "Mp3", "Oga", "Opus", "Wav", "Weba",
     "Avi", "Mp4", "Mpeg", "Ogv", "Ts", "WebmVideo", "ThreeGp", "ThreeG2",
     "Apng", "Avif", "Bmp", "Gif", "Ico", "Jpg", "Png", "Svg", "Tiff",
     "Webp", "Qoi", "Text", "Css", "Csv", "Html", "Javascript", "Json",
     "JsonLd", "Xml", "Pdf", "Rtf", "Arc", "Bz", "Bz2", "Gz", "Jar", "Ogg",
     "Rar", "SevenZ", "Tar", "Zip", "Eot", "Otf", "Ttf", "Woff", "Woff2",
     "Abiword", "Azw", "Cda", "Csh", "Doc", "Docx", "Epub", "Ics", "Mpkg",
     "Odp", "Ods", "Odt", "Php", "Ppt", "Pptx", "Sh", "Vsd", "Xhtml",
     "Xls", "Xlsx", "Xul"}

InitMime ==
    /\ InitRouter
    /\ probe \in {[fn |-> "mime", pc |-> "ready", in |-> Mime(t), out |-> NoMime] :
                    t \in MimeTags}

\* MimeType::from(x.to_string())
DisplayThenParse ==
    /\ probe.fn = "mime"
    /\ probe.pc = "ready"
    /\ probe' = [probe EXCEPT !.pc = "done", !.out = MimeFromStr(MimeToString(probe.in))]
    /\ UNCHANGED <<pages, notfound, panic, holders, req>>

NextMime == DisplayThenParse

SpecMime == InitMime /\ [][NextMime]_vars

----------------------------------------------------------------------------
(* TransformerEnum::from_str applied to step strings *)

MaxStepPieces == 4

\* What step strings start with
StepNames ==
    {<<>>, <<"m", "a", "x", "d", "i", "m">>, <<"c", "r", "o", "p">>,
     <<"f", "o", "r", "m", "a", "t">>, <<"b", "l", "u", "r">>}

\* What follows the name, piece by piece
StepPieces ==
    {<<"(">>, <<")">>, <<" ">>, <<"p", "n", "g">>, <<"1", ",", "1">>,
     <<"1", ",", "1", ",", "n">>, <<"x">>}

\* The usage form of the MaxDim documentation, w and h being 100
StepMaxdimUsage ==
    <<"m", "a", "x", "d", "i", "m", "(", "1", "0", "0", ",", " ", "1", "0", "0", ")">>

StepMaxdimSpaceBefore ==
    <<"m", "a", "x", "d", "i", "m", "(", "1", "0", "0", " ", ",", "1", "0", "0", ")">>

StepMaxdimPadded ==
    <<"m", "a", "x", "d", "i", "m", "(", " ", "1", "0", "0", ",", "1", "0", "0", " ",
      ")">>

StepMaxdimTight ==
    <<"m", "a", "x", "d", "i", "m", "(", "1", "0", "0", ",", "1", "0", "0", ")">>

\* The usage form of the Crop documentation
StepCropUsage ==
    <<"c", "r", "o", "p", "(", "1", "0", "0", ",", " ", "1", "0", "0", ",", " ", "n",
      ")">>

\* The example of the Crop documentation
StepCropExample ==
    <<"c", "r", "o", "p", "(", "1", "0", "0", "v", "w", ",", " ", "5", "0", ")">>

StepExamples ==
    {StepMaxdimUsage, StepMaxdimSpaceBefore, StepMaxdimPadded, StepMaxdimTight,
     StepCropUsage, StepCropExample}

StepInputs ==
    {n \o Join(ps, <<>>) : n \in StepNames, ps \in SeqsUpTo(StepPieces, MaxStepPieces)}
        \cup StepExamples

\* A range a..b of a str of `len` bytes is out of bounds
SlicePanics(len, a, b) == a > b \/ b > len

\* The slices of TransformerEnum::from_str: s[name_len..] before the loop,
\* s[0..name_len - 1], s[name_len..end] and s[end + 1..] after it
TransformerSlicesPanic(len, name_len, balance, end) ==
    \/ SlicePanics(len, name_len, len)
    \/ /\ balance = 0
       /\ \/ SlicePanics(len, 0, name_len - 1)
          \/ SlicePanics(len, name_len, end)
          \/ SlicePanics(len, end + 1, len)

TransformerScannedPanics(s, name_len, scan) ==
    TransformerSlicesPanic(Len(s), name_len, scan[1], scan[2])

TransformerFoundPanics(s, open) ==
    open # 0 /\ TransformerScannedPanics(s, open, BalanceScan(s, open + 1, 1, open))

\* TransformerEnum::from_str(raw) panics
TransformerEnumPanics(raw) == TransformerFoundPanics(Trim(raw), FindIn(Trim(raw), {"("}))

InitStep ==
    /\ InitRouter
    /\ probe \in {[fn |-> "step", pc |-> "ready", in |-> s, out |-> Err(<<>>)] :
                    s \in StepInputs}

\* TransformerEnum::from_str(probe.in)
ParseStepText ==
    /\ probe.fn = "step"
    /\ probe.pc = "ready"
    /\ probe' = IF TransformerEnumPanics(probe.in)
                THEN [probe EXCEPT !.pc = "panicked"]
                ELSE [probe EXCEPT !.pc = "done", !.out = TransformerEnumFromStr(probe.in)]
    /\ UNCHANGED <<pages, notfound, panic, holders, req>>

NextStep == ParseStepText

SpecStep == InitStep /\ [][NextStep]_vars

----------------------------------------------------------------------------
(* servable/html.rs: the builders of HtmlPage that add scripts and styles. *)
(* The page under construction is the probe: its `scripts` and `styles`,   *)
(* and the last builder called with its argument.                          *)

MaxSources == 3

\* ScriptSource<String>
ScriptSource(kind, s) == [kind |-> kind, s |-> s]

SourceTexts == {"a", "b"}

ScriptSources == {ScriptSource(k, s) : k \in {"Inline", "Linked"}, s \in SourceTexts}

\* HtmlPage::default(): no scripts, no styles
InitHtml ==
    /\ InitRouter
    /\ probe = [fn |-> "html", scripts |-> <<>>, styles |-> <<>>,
                last |-> [op |-> "default", arg |-> ScriptSource("Inline", "")]]

\* The page may take another builder call
Building == probe.fn = "html" /\ Len(probe.scripts) + Len(probe.styles) < MaxSources

\* self.scripts.push(x)
PushScript(op, x) ==
    /\ probe' = [probe EXCEPT !.scripts = Append(@, x), !.last = [op |-> op, arg |-> x]]
    /\ UNCHANGED <<pages, notfound, panic, holders, req>>

\* self.styles.push(x)
PushStyle(op, x) ==
    /\ probe' = [probe EXCEPT !.styles = Append(@, x), !.last = [op |-> op, arg |-> x]]
    /\ UNCHANGED <<pages, notfound, panic, holders, req>>

\* HtmlPage::with_script_inline
WithScriptInline ==
    /\ Building
    /\ \E s \in SourceTexts : PushScript("with_script_inline", ScriptSource("Inline", s))

\* HtmlPage::with_script_linked
WithScriptLinked ==
    /\ Building
    /\ \E s \in SourceTexts : PushScript("with_script_linked", ScriptSource("Linked", s))

\* HtmlPage::with_script
WithScript ==
    /\ Building
    /\ \E x \in ScriptSources : PushScript("with_script", x)

\* HtmlPage::with_style_inline
WithStyleInline ==
    /\ Building
    /\ \E s \in SourceTexts : PushStyle("with_style_inline", ScriptSource("Inline", s))

\* HtmlPage::with_style_linked
WithStyleLinked ==
    /\ Building
    /\ \E s \in SourceTexts : PushStyle("with_style_linked", ScriptSource("Linked", s))

\* HtmlPage::with_style: the style is pushed onto self.scripts
WithStyle ==
    /\ Building
    /\ \E x \in ScriptSources : PushScript("with_style", x)

NextHtml ==
    \/ WithScriptInline
    \/ WithScriptLinked
    \/ WithScript
    \/ WithStyleInline
    \/ WithStyleLinked
    \/ WithStyle

SpecHtml == InitHtml /\ [][NextHtml]_vars

----------------------------------------------------------------------------
(* router.rs: the normalization branch of call() and a client that follows *)
(* the redirect.  The probe holds the path first requested (`in`), the     *)
(* path of the current request, the response to it and the number of       *)
(* redirects followed.                                                     *)

MaxFollowLen == 6

\* Request paths of up to MaxFollowLen characters
FollowPaths ==
    {p \in SeqsUpTo(PathChars \cup {Del}, MaxFollowLen) : p # <<>> /\ p[1] = "/"}

NoAnswer == Response(0, NoHeaders, BodyEmpty)

InitFollow ==
    /\ InitRouter
    /\ probe \in {[fn |-> "follow", pc |-> "ready", in |-> p, path |-> p,
                   out |-> NoAnswer, hops |-> 0] : p \in FollowPaths}

\* call() on a GET for probe.path, up to the end of the normalization
\* branch: the 308 or 400 it returns, or the request goes on to a Servable
RequestPath ==
    /\ probe.fn = "follow"
    /\ probe.pc = "ready"
    /\ probe' = IF ~NeedsNormalize(probe.path) THEN [probe EXCEPT !.pc = "served"]
                ELSE [probe EXCEPT !.out = NormalizeRedirect(probe.path),
                                   !.pc = IF NormalizeRedirect(probe.path).code = 308
                                          THEN "redirected" ELSE "refused"]
    /\ UNCHANGED <<pages, notfound, panic, holders, req>>

\* The client requests the Location of the 308
FollowRedirect ==
    /\ probe.fn = "follow"
    /\ probe.pc = "redirected"
    /\ probe' = [probe EXCEPT !.pc = "ready", !.path = probe.out.headers["location"],
                              !.out = NoAnswer, !.hops = @ + 1]
    /\ UNCHANGED <<pages, notfound, panic, holders, req>>

NextFollow == RequestPath \/ FollowRedirect

SpecFollow == InitFollow /\ [][NextFollow]_vars

----------------------------------------------------------------------------
(* Properties *)

\* The RenderContext of the request
ReqCtx == [route |-> req.path, t |-> req.t]

\* The router ran the lookup and called the chosen Servable
Served == req.pc = "done" /\ req.lookup

\* C1: for every registered Servable and every RenderContext, render
\* reports the status code, MIME type, ttl and immutability flag that head
\* reports for the same context; stated on every GET the router served,
\* whatever the transform task came to.
C1_HeadRenderAgree ==
    (Served /\ req.method = "GET")
        => Metadata(req.rend) = Metadata(ServableHead(req.page, ReqCtx))

\* C2: a request whose method is neither GET nor HEAD is answered 405 with
\* an `Allow` header listing GET and HEAD, whatever the path, and without a
\* lookup, a redirect or a Servable call.
C2_MethodNotAllowed ==
    (req.pc = "done" /\ req.method \notin {"GET", "HEAD"})
        => /\ req.resp.code = 405
           /\ ContainsKey(req.resp.headers, "allow")
           /\ Contains(req.resp.headers["allow"], <<"G", "E", "T">>)
           /\ Contains(req.resp.headers["allow"], <<"H", "E", "A", "D">>)
           /\ ~ContainsKey(req.resp.headers, "location")
           /\ ~req.lookup
           /\ req.invoked = {}

\* C3: every chain that parses holds at most one Format step, and that step
\* is the last; `format(png);maxdim(10,10)` and `format(png);format(gif)`
\* do not parse, `maxdim(100,100);format(png)` parses to two steps, the
\* second a Format.
C3_FormatOnceAndLast ==
    probe.pc = "done"
        => /\ probe.out.ok
                => /\ NFormat(probe.out.val) <= 1
                   /\ NFormat(probe.out.val) = 1 => LastIsFormat(probe.out.val)
           /\ probe.in = Join(<<FragFormatPng, FragMaxdim10>>, <<";">>) => ~probe.out.ok
           /\ probe.in = Join(<<FragFormatPng, FragFormatGif>>, <<";">>) => ~probe.out.ok
           /\ probe.in = Join(<<FragMaxdim100, FragFormatPng>>, <<";">>)
                => /\ probe.out.ok
                   /\ Len(probe.out.val) = 2
                   /\ IsFormat(probe.out.val[2])

\* The path holds `//` or ends with `/` without being `/`
Unnormalized(path) ==
    \/ \E i \in 1..(Len(path) - 1) : path[i] = "/" /\ path[i + 1] = "/"
    \/ Len(path) > 1 /\ path[Len(path)] = "/"

\* The path with every separator dropped that another separator or the end
\* of the path follows; `/` when nothing is left
RECURSIVE Collapsed(_)
Collapsed(path) ==
    IF path = <<>> THEN <<>>
    ELSE IF path[1] = "/" /\ (Len(path) = 1 \/ path[2] = "/") THEN Collapsed(Tail(path))
    ELSE <<path[1]>> \o Collapsed(Tail(path))

CollapsedPath(path) == IF Collapsed(path) = <<>> THEN <<"/">> ELSE Collapsed(path)

\* The path holds a character no header value may hold
HoldsDel(path) == \E i \in 1..Len(path) : path[i] = Del

\* A GET or HEAD request for an un-normalized path got its response
RedirectCase == req.pc = "done" /\ req.method \in {"GET", "HEAD"} /\ Unnormalized(req.path)

\* C4 as stated: a GET or HEAD request for an un-normalized path is
\* answered 308 with Location the collapsed path, and no Servable is called.
C4_AlwaysRedirects ==
    RedirectCase
        => /\ req.resp.code = 308
           /\ req.resp.headers = Insert(NoHeaders, "location", CollapsedPath(req.path))
           /\ ~req.lookup
           /\ req.invoked = {}

\* C4, amended: a GET or HEAD request for an un-normalized path is answered
\* 308 with Location the collapsed path, unless the collapsed path is no
\* valid header value, and then 400 without Location; no Servable is called
\* in either case.
C4_RedirectOrBadRequest ==
    RedirectCase
        => /\ ~req.lookup
           /\ req.invoked = {}
           /\ req.rend = NoRendered
           /\ IF HoldsDel(req.path)
              THEN req.resp.code = 400 /\ req.resp.headers = NoHeaders
              ELSE /\ req.resp.code = 308
                   /\ req.resp.headers =
                        Insert(NoHeaders, "location", CollapsedPath(req.path))

\* C4 happens: GET /a//b/ with /a registered is answered 308 to /a/b
C4_Witness ==
    /\ req.pc = "done"
    /\ req.method = "GET"
    /\ req.path = <<"/", "a", "/", "/", "b", "/">>
    /\ <<"/", "a">> \in DOMAIN pages
    /\ req.resp.code = 308
    /\ req.resp.headers["location"] = <<"/", "a", "/", "b">>
    /\ req.invoked = {}

\* C5: a normalized GET/HEAD request is dispatched to the Servable whose
\* key equals the request path, and to the not-found Servable when no key
\* equals it; the default not-found Servable yields 404, a ttl of one day,
\* immutable, MIME html and an empty body.
C5_ExactMatchDispatch ==
    [][(req.pc = "pending" /\ req'.lookup)
        => /\ \A k \in DOMAIN pages :
                k = req.path => req'.hit /\ req'.page = pages[k]
           /\ (\A k \in DOMAIN pages : k # req.path)
                => /\ ~req'.hit
                   /\ req'.page = req.nf
                   /\ req.nf = Default404
                        => /\ req'.pc = "done"
                           /\ req'.rend.code = 404
                           /\ req'.rend.ttl = Ttl(24 * 60 * 60 * 1000)
                           /\ req'.rend.immutable
                           /\ req'.rend.mime = Mime("Html")
                           /\ req'.rend.body = BodyEmpty
                           /\ req'.resp.code = 404
                           /\ req'.resp.body = BodyEmpty
           /\ \A call \in req'.invoked : call[2] = req'.page]_vars

\* C5 happens: with `/` registered, /a is a miss and the default not-found
\* Servable answers it
C5_Witness ==
    /\ Served
    /\ req.path = <<"/", "a">>
    /\ DOMAIN pages = {<<"/">>}
    /\ ~req.hit
    /\ req.page = Default404
    /\ req.resp.code = 404

\* C6: for a HEAD request the router calls only head of the selected
\* Servable, starts no transform task, and the response has no body; for a
\* GET request it calls render and the response body is what render
\* returned.
C6_HeadCallsOnlyHead ==
    req.lookup
        => /\ req.method = "HEAD"
                => /\ req.invoked = {<<"head", req.page>>}
                   /\ req.pc = "done"
                   /\ req.resp.body = BodyEmpty
                   /\ Metadata(req.rend) = Metadata(ServableHead(req.page, ReqCtx))
           /\ req.method = "GET"
                => /\ req.invoked = {<<"render", req.page>>}
                   /\ req.pc = "done"
                        => \E outcome \in TaskOutcomes :
                              req.resp.body = ServableRender(req.page, ReqCtx, outcome).body

\* C6 happens: HEAD of an image asset with a transform chain is answered
\* from head alone
C6_Witness ==
    /\ Served
    /\ req.method = "HEAD"
    /\ req.page = ImgAsset
    /\ req.t = SomeT(ChainMaxdim)
    /\ req.invoked = {<<"head", ImgAsset>>}
    /\ req.resp.code = 200
    /\ req.resp.body = BodyEmpty

\* The ttl in whole seconds, 1 when absent or below one second
WholeSecondsOrOne(ttl) == IF ttl.some /\ ttl.ms >= 1000 THEN ttl.ms \div 1000 ELSE 1

HeadersKept(in, out) ==
    /\ \A n \in DOMAIN in : n \in DOMAIN out /\ out[n] = in[n]
    /\ (DOMAIN out) \ (DOMAIN in) \subseteq {"cache-control", "accept-ch", "content-type"}
    /\ {"cache-control", "accept-ch"} \subseteq DOMAIN out

\* C8 as stated: finalization never changes a header the Servable set,
\* adds Cache-Control, Accept-CH and Content-Type only where unset, and adds
\* Content-Type, equal to the MIME's string form, only when the Rendered
\* value has a MIME.
C8_ContentTypeOnlyFromMime ==
    probe.pc = "done"
        => /\ HeadersKept(probe.in.headers, probe.out.headers)
           /\ ~ContainsKey(probe.in.headers, "content-type")
                => IF probe.in.mime # NoMime
                   THEN /\ ContainsKey(probe.out.headers, "content-type")
                        /\ probe.out.headers["content-type"] =
                              <<MimeToString(probe.in.mime)>>
                   ELSE ~ContainsKey(probe.out.headers, "content-type")

\* C8, amended: finalization never changes a header the Servable set and
\* adds Cache-Control, Accept-CH and Content-Type only where unset;
\* Content-Type is the MIME's string form when the Rendered value has a
\* MIME; without a MIME a String body still gets
\* `text/plain; charset=utf-8`, a Static or Bytes body
\* `application/octet-stream`, and only an empty body gets none.
C8_ContentTypeFromMimeOrBody ==
    probe.pc = "done"
        => /\ HeadersKept(probe.in.headers, probe.out.headers)
           /\ ~ContainsKey(probe.in.headers, "content-type")
                => IF probe.in.mime # NoMime
                   THEN /\ ContainsKey(probe.out.headers, "content-type")
                        /\ probe.out.headers["content-type"] =
                              <<MimeToString(probe.in.mime)>>
                   ELSE IF probe.in.body.kind = "String"
                   THEN /\ ContainsKey(probe.out.headers, "content-type")
                        /\ probe.out.headers["content-type"] =
                              <<"text/plain; charset=utf-8">>
                   ELSE IF probe.in.body.kind \in {"Static", "Bytes"}
                   THEN /\ ContainsKey(probe.out.headers, "content-type")
                        /\ probe.out.headers["content-type"] =
                              <<"application/octet-stream">>
                   ELSE ~ContainsKey(probe.out.headers, "content-type")

\* C8 happens: a Servable's own Content-Type and extra header survive
\* beside a MIME, and Cache-Control is filled in
C8_Witness ==
    /\ probe.pc = "done"
    /\ probe.in.mime = Mime("Png")
    /\ DOMAIN probe.in.headers = {"content-type", "x-extra"}
    /\ probe.out.headers["content-type"] = <<"application/custom">>
    /\ probe.out.headers["x-extra"] = <<"1">>
    /\ ContainsKey(probe.out.headers, "cache-control")

\* A route key add_page accepts
KeyOk(k) ==
    /\ k # <<>>
    /\ k[1] = "/"
    /\ \A i \in 1..(Len(k) - 1) : ~(k[i] = "/" /\ k[i + 1] = "/")
    /\ k[Len(k)] = "/" => k = <<"/">>

RoutePanics ==
    {"route must start with /", "route must not end with /", "route must not contain //"}

\* The generated routes add_page must refuse
BadRoutes == {route \in RouteArgs : ~KeyOk(route)}

\* C9: add_page with a route that does not start with `/`, ends with `/`
\* without being `/`, or holds `//` panics and leaves the table as it was;
\* so every key of the table starts with `/`, holds no `//` and has no
\* trailing `/` unless it is `/`.
C9_BadRouteRejected ==
    [][/\ \A route \in BadRoutes, page \in PageArgs :
            AddPage(route, page) => panic' \in RoutePanics /\ pages' = pages
       /\ \A k \in DOMAIN pages' : KeyOk(k)]_vars

\* C9 happens: add_page panicked on a route holding `//` after a valid
\* route was added
C9_Witness ==
    /\ panic = "route must not contain //"
    /\ DOMAIN pages = {<<"/", "a">>}

\* C10: once call() has been invoked, add_page never changes the route
\* table again: the keys and the Servable bound to each stay what they were.
C10_FrozenOnceServing ==
    [][req.pc # "idle" => pages' = pages]_vars

\* transform_bytes was applied to a zero-step chain
EmptyChainApplied ==
    probe.fn = "transform_bytes" /\ probe.pc = "done" /\ probe.in.steps = <<>>

\* C11 (as stated): a chain with zero steps applied to image bytes returns
\* exactly the original bytes, without decoding and re-encoding them.
C11_EmptyChainReturnsOriginal ==
    (EmptyChainApplied /\ probe.out.kind = "Ok") => probe.out.bytes = probe.in.bytes

\* C11 (amended): a chain with zero steps still decodes the bytes and
\* encodes them again in their own format.  It succeeds exactly when the
\* MIME names an image format, the bytes decode as that format and the
\* encoder accepts the image; the result then has the MIME the image
\* crate names that format by and holds the re-encoded pixels only, so it
\* equals the input only when the input held nothing else.
C11_EmptyChainReencodes ==
    EmptyChainApplied =>
        /\ probe.out.kind = "Ok" <=>
               /\ MimeIsImage(probe.in.mime)
               /\ probe.in.bytes.format = FormatFromMimeType(MimeToString(probe.in.mime))
               /\ probe.in.encodes
        /\ probe.out.kind = "Ok" =>
               /\ probe.out.mime =
                      MimeFromStr(FormatToMimeType(
                          FormatFromMimeType(MimeToString(probe.in.mime))))
               /\ probe.in.mime \in {Mime("Png"), Mime("Gif")}
                      => probe.out.mime = probe.in.mime
               /\ probe.out.bytes = [probe.in.bytes EXCEPT !.extra = FALSE]

C11_Witness ==
    /\ EmptyChainApplied
    /\ probe.out.kind = "Ok"
    /\ probe.in.bytes.extra
    /\ probe.out.bytes # probe.in.bytes

\* The router chose a StaticAsset whose MIME is not an image format
NonImageAssetChosen ==
    req.lookup /\ req.page.kind = "StaticAsset" /\ ~MimeIsImage(req.page.mime)

\* C12: a StaticAsset whose MIME is not an image format ignores `t`,
\* well-formed or malformed: head and render answer 200 with the asset's
\* own MIME and ttl, render's body is the asset's static bytes, and no
\* transform task is started.
C12_NonImageIgnoresT ==
    NonImageAssetChosen
        => /\ req.pc = "done"
           /\ req.rend.code = 200
           /\ req.rend.mime = req.page.mime
           /\ req.rend.ttl = req.page.ttl
           /\ req.resp.code = 200
           /\ req.method = "GET"
                => /\ req.rend.body = BodyStatic(<<"bytes", req.page.id>>)
                   /\ req.resp.body = req.rend.body
           /\ req.method = "GET" => req.invoked = {<<"render", req.page>>}
           /\ req.method = "HEAD" => req.invoked = {<<"head", req.page>>}

\* C12 happens: a text asset asked for with a malformed chain is served
\* as it is
C12_Witness ==
    /\ NonImageAssetChosen
    /\ req.pc = "done"
    /\ req.method = "GET"
    /\ req.page = TxtAsset
    /\ req.t = SomeT(ChainUnknown)
    /\ req.resp.code = 200
    /\ req.resp.body = BodyStatic(<<"bytes", "txt">>)

\* The router is about to call render of an image StaticAsset with a `t`
ImageAssetWithT(page) ==
    /\ req.pc = "pending"
    /\ req.method = "GET"
    /\ ~NeedsNormalize(req.path)
    /\ page.kind = "StaticAsset"
    /\ MimeIsImage(page.mime)
    /\ req.t.some

\* C13: for an image StaticAsset asked for with `t`, render answers 400
\* with the parse error as body when the chain does not parse; when it
\* parses, the transform task is started and render answers 500 when the
\* transform fails, 500 when the task fails to run, and 200 with the
\* transformed bytes otherwise.
C13_TransformOutcomes ==
    [][/\ (req'.lookup /\ ImageAssetWithT(req'.page))
            => IF TransformerChainFromStr(req.t.s).ok
               THEN req'.pc = "blocking"
               ELSE /\ req'.pc = "done"
                    /\ req'.rend.code = 400
                    /\ req'.rend.body = BodyString(TransformerChainFromStr(req.t.s).err)
                    /\ req'.resp.code = 400
                    /\ req'.resp.body = req'.rend.body
       /\ (req.pc = "blocking" /\ TaskDone("ok"))
            => /\ req'.rend.code = 200
               /\ req'.rend.body = BodyBytes(<<"transformed", req.page.id>>)
               /\ req'.resp.code = 200
               /\ req'.resp.body = req'.rend.body
       /\ (req.pc = "blocking" /\ (TaskDone("image_error") \/ TaskDone("join_error")))
            => /\ req'.rend.code = 500
               /\ req'.rend.body.kind = "String"
               /\ req'.resp.code = 500]_vars

\* C13 happens: the transform of a well-formed chain failed and the
\* request was answered 500
C13_Witness ==
    /\ Served
    /\ req.method = "GET"
    /\ req.page = ImgAsset
    /\ req.t = SomeT(ChainMaxdim)
    /\ req.resp.code = 500
    /\ req.resp.body = BodyString(<<"error while processing image">>)

\* C14: every request ends in a well-formed response: whatever Rendered
\* value a Servable returns (any headers, body, ttl and MIME, `Other` with
\* arbitrary text included), the router neither panics nor returns an
\* error, and the response carries the Servable's status code.
C14_NeverPanics ==
    (probe.fn = "finalize" /\ probe.pc # "ready")
        => /\ probe.pc = "done"
           /\ probe.out.code = probe.in.code

\* C15: for every recognized (non-Other) MimeType m, parsing m.to_string()
\* yields m again.
C15_DisplayParseRoundTrip ==
    (probe.fn = "mime" /\ probe.pc = "done") => probe.out = probe.in

\* CropTransformer::transform was applied and cropped the image
CropActed == probe.fn = "crop" /\ probe.pc = "done" /\ probe.out.acted

\* The offset the float direction stands for, for an image W x H and a crop
\* region cw x ch, in integers with truncating division
OffsetOf(float, W, H, cw, ch) ==
    CASE float = "North" -> <<(W - cw) \div 2, 0>>
      [] float = "South" -> <<(W - cw) \div 2, H - ch>>
      [] float = "East" -> <<W - cw, (H - ch) \div 2>>
      [] float = "West" -> <<0, (H - ch) \div 2>>
      [] float = "Center" -> <<(W - cw) \div 2, (H - ch) \div 2>>
      [] float = "NorthEast" -> <<W - cw, 0>>
      [] float = "NorthWest" -> <<0, 0>>
      [] float = "SouthEast" -> <<W - cw, H - ch>>
      [] float = "SouthWest" -> <<0, H - ch>>

C17_CropRegionWithinImage ==
    (probe.fn = "crop" /\ probe.pc = "done")
        => /\ ~probe.out.panic
           /\ IF probe.out.w = 0 \/ probe.out.h = 0
              THEN probe.out.img = probe.in.img /\ ~probe.out.acted
              ELSE /\ probe.out.img = [w |-> Min(probe.out.w, probe.in.img.w),
                                       h |-> Min(probe.out.h, probe.in.img.h)]
                   /\ U32Leq(probe.out.x, U32(probe.in.img.w - probe.out.img.w))
                   /\ U32Leq(probe.out.y, U32(probe.in.img.h - probe.out.img.h))

\* MaxDimTransformer::transform was applied
MaxDimApplied == probe.fn = "maxdim" /\ probe.pc = "done"

\* The bound of a dimension as a numerator over that dimension: the
\* resolved limit, or the dimension itself (ratio 1) when unconstrained
BoundOr(max, dim) == IF max.some THEN max.v ELSE dim

\* W x H scaled by min(bw / W, bh / H), in exact arithmetic, rounded down
ScaledByMinRatio(W, H, bw, bh) ==
    IF bw * H <= bh * W
    THEN <<bw, (H * bw) \div W>>
    ELSE <<(W * bh) \div H, bh>>

\* t is e, or one below it: the f32 product of a dimension and the ratio
\* can fall just short of an integer the exact product reaches
RoundedDown(t, e) == t = e \/ t = e - 1

MaxDimScaled(tw, th, e) == RoundedDown(tw, e[1]) /\ RoundedDown(th, e[2])

MaxDimTargetOk(W, H, max_width, max_height, tw, th, acted) ==
    /\ tw <= W /\ th <= H
    /\ max_width.some => tw <= max_width.v
    /\ max_height.some => th <= max_height.v
    /\ IF DimFits(max_width, W) /\ DimFits(max_height, H)
       THEN tw = W /\ th = H /\ ~acted
       ELSE MaxDimScaled(tw, th, ScaledByMinRatio(W, H, BoundOr(max_width, W),
                                                  BoundOr(max_height, H)))

\* C18: the maxdim target never exceeds the image W x H, satisfies every
\* constrained bound, and is W x H scaled by the one ratio
\* min(widthRatio, heightRatio), each dimension rounded down; when every
\* bound already holds the target is W x H and the image is not resized.
C18_MaxDimTarget ==
    MaxDimApplied
        => MaxDimTargetOk(probe.in.img.w, probe.in.img.h,
                          MaxWidth(probe.in.step.w, probe.in.img.w),
                          MaxHeight(probe.in.step.h, probe.in.img.h),
                          probe.out.w, probe.out.h, probe.out.acted)

\* C18 happens: maxdim(50,100) on a 200 x 100 image is limited by its
\* width alone and both dimensions are scaled by 50 / 200
C18_Witness ==
    /\ MaxDimApplied
    /\ probe.in.step = MaxDim(Pixels(50), Pixels(100))
    /\ probe.in.img = [w |-> 200, h |-> 100]
    /\ probe.out.w = 50
    /\ probe.out.h = 25
    /\ probe.out.acted

\* `maxdim(50vw,100)` and `maxdim(50vw, 100)`
TextMaxdimVw ==
    <<"m", "a", "x", "d", "i", "m", "(", "5", "0", "v", "w", ",", "1", "0", "0", ")">>
TextMaxdimVwSpaced ==
    <<"m", "a", "x", "d", "i", "m", "(", "5", "0", "v", "w", ",", " ", "1", "0", "0", ")">>

\* maxdim with w = 50vw and h = 100 was applied to a 200 x 100 image
MaxDimHalfWidthApplied ==
    /\ MaxDimApplied
    /\ probe.in.step = MaxDim(WidthPercent(5000), Pixels(100))
    /\ probe.in.img = [w |-> 200, h |-> 100]

\* C19 (as stated): maxdim(50vw, 100) applied to a 200 x 100 image scales
\* by min(0.25, 1.0) = 0.25 and produces 50 x 25.
C19_HalfWidthGivesQuarter ==
    MaxDimHalfWidthApplied => probe.out.w = 50 /\ probe.out.h = 25

\* C19 (amended): on a 200 x 100 image 50vw resolves to 100 pixels, so
\* maxdim(50vw,100) scales by min(100/200, 100/100) = 0.5 and produces
\* 100 x 50; the step is what `maxdim(50vw,100)` parses to, and the text
\* with a space after the comma does not parse.
C19_HalfWidthGivesHalf ==
    MaxDimHalfWidthApplied
        => /\ TransformerChainFromStr(TextMaxdimVw) = Ok(<<probe.in.step>>)
           /\ ~TransformerChainFromStr(TextMaxdimVwSpaced).ok
           /\ MaxWidth(probe.in.step.w, 200) = SomeDim(100)
           /\ probe.out.w = 100
           /\ probe.out.h = 50
           /\ probe.out.acted
           /\ probe.out.img = [w |-> 100, h |-> 50]

C19_Witness ==
    /\ MaxDimHalfWidthApplied
    /\ probe.out.w = 100
    /\ probe.out.h = 50

\* C20: maxdim(50,100vh) does not limit width: `vw` or `vh` limits one
\* dimension only, so for every image, those wider than 50 pixels
\* included, the step leaves the width as it is.
C20_VhLeavesWidthUnlimited ==
    (MaxDimApplied /\ probe.in.step = MaxDim(Pixels(50), HeightPercent(10000)))
        => /\ probe.out.w = probe.in.img.w
           /\ probe.out.img.w = probe.in.img.w

\* transform_bytes was applied and returned Ok
TransformSucceeded ==
    probe.fn = "transform_bytes" /\ probe.pc = "done" /\ probe.out.kind = "Ok"

\* C21: the output codec of a chain is the target of its last step when
\* that step is Format and otherwise the codec the input was decoded as,
\* and the MIME StaticAsset::head reports for the chain (output_mime)
\* equals the MIME a successful transform_bytes returns for the same chain
\* and source MIME.
C21_HeadMimeIsRenderMime ==
    TransformSucceeded
        => /\ probe.out.bytes.format =
                  (IF LastIsFormat(probe.in.steps)
                   THEN probe.in.steps[Len(probe.in.steps)].format
                   ELSE FormatFromMimeType(MimeToString(probe.in.mime)))
           /\ probe.out.mime = MimeOr(OutputMime(probe.in.steps, probe.in.mime), probe.in.mime)

\* The trimmed `;`-separated pieces of a chain string
PiecesOf(s) == [i \in 1..Len(Split(s, ";")) |-> Trim(Split(s, ";")[i])]

\* Piece i is a step that does not parse
PieceMalformed(ps, i) == ps[i] # <<>> /\ ~TransformerEnumFromStr(ps[i]).ok

\* The indexes of the malformed pieces
MalformedIn(ps) == {i \in 1..Len(ps) : PieceMalformed(ps, i)}

\* The first malformed piece
FirstMalformed(bad) == CHOOSE i \in bad : \A j \in bad : i <= j

\* The steps the well-formed pieces parse to
StepsOfPieces(ps) ==
    SelectSeq([i \in 1..Len(ps) |-> IF ps[i] = <<>> THEN Err(<<>>)
                                    ELSE TransformerEnumFromStr(ps[i])],
              LAMBDA r : r.ok)

\* The well-formed pieces break a Format constraint of the chain
FormatViolated(rs) ==
    LET n == Cardinality({i \in 1..Len(rs) : rs[i].val.kind = "Format"})
    IN  n > 1 \/ (n = 1 /\ rs[Len(rs)].val.kind # "Format")

ChainParsed == probe.fn = "chain" /\ probe.pc = "done"

StepErrorNamed(out, ps, bad) ==
    /\ bad # {}
         => /\ ~out.ok
            /\ out.err = <<"invalid step", ps[FirstMalformed(bad)],
                           TransformerEnumFromStr(ps[FirstMalformed(bad)]).err>>
    /\ (~out.ok /\ out.err[1] # "invalid step") => bad = {}

\* C22: a chain with a step that does not parse fails with the error of its
\* first such step, named by the step's trimmed text, also when the chain
\* breaks a Format constraint; a Format error is only returned when every
\* step parsed.
C22_StepErrorBeforeFormatChecks ==
    ChainParsed => StepErrorNamed(probe.out, PiecesOf(probe.in), MalformedIn(PiecesOf(probe.in)))

\* C22 happens: `format(png);maxdim(10,10);blur(1)` breaks format-last and
\* ends with an unknown step, and the error names `blur(1)`
C22_Witness ==
    /\ ChainParsed
    /\ probe.in = Join(<<FragFormatPng, FragMaxdim10, ChainUnknown>>, <<";">>)
    /\ FormatViolated(StepsOfPieces(PiecesOf(probe.in)))
    /\ ~probe.out.ok
    /\ probe.out.err[1] = "invalid step"
    /\ probe.out.err[2] = ChainUnknown

\* Opening minus closing parentheses among s[from..to]
ParenDepth(s, from, to) ==
    Cardinality({i \in from..to : s[i] = "("}) - Cardinality({i \in from..to : s[i] = ")"})

\* The `)` that closes the `(` at `open`: the first position where the
\* depth is back to zero, 0 when there is none
CloseOf(s, open) ==
    IF open # 0 /\ \E j \in open..Len(s) : ParenDepth(s, open, j) = 0
    THEN CHOOSE j \in open..Len(s) :
            /\ ParenDepth(s, open, j) = 0
            /\ \A k \in open..(j - 1) : ParenDepth(s, open, k) # 0
    ELSE 0

KindOfName(name) ==
    CASE name = <<"m", "a", "x", "d", "i", "m">> -> "MaxDim"
      [] name = <<"c", "r", "o", "p">> -> "Crop"
      [] name = <<"f", "o", "r", "m", "a", "t">> -> "Format"
      [] OTHER -> "none"

\* name(args) with only whitespace after the closing parenthesis
StepShaped(s, open, close) ==
    /\ open # 0
    /\ close # 0
    /\ Trim(SubSeq(s, close + 1, Len(s))) = <<>>

StepParsed == probe.fn = "step" /\ probe.pc # "ready"

StepParsesAs(s, open, close, out) ==
    /\ open = 0 => out = Err(<<"invalid transformation", s>>)
    /\ (open # 0 /\ close = 0) => out = Err(<<"mismatched parenthesis in", s>>)
    /\ (close # 0 /\ Trim(SubSeq(s, close + 1, Len(s))) # <<>>)
         => out = Err(<<"invalid transformation", s>>)
    /\ (StepShaped(s, open, close) /\ KindOfName(Trim(SubSeq(s, 1, open - 1))) = "none")
         => out = Err(<<"unknown transformation", Trim(SubSeq(s, 1, open - 1))>>)
    /\ out.ok
         => /\ StepShaped(s, open, close)
            /\ out.val.kind = KindOfName(Trim(SubSeq(s, 1, open - 1)))

\* C23: a step parses only as name(args), the first `(` closed by the `)`
\* that balances it and nothing but whitespace after; text after that `)`,
\* no `(`, an unbalanced count and an unknown name are errors; no input
\* makes the step parser panic.
C23_StepShapeAndNoPanic ==
    StepParsed
        => /\ probe.pc = "done"
           /\ StepParsesAs(Trim(probe.in), FindIn(Trim(probe.in), {"("}),
                           CloseOf(Trim(probe.in), FindIn(Trim(probe.in), {"("})),
                           probe.out)

\* C23 happens: `format(png)x` has text after the closing parenthesis and
\* is refused
C23_Witness ==
    /\ StepParsed
    /\ probe.in = <<"f", "o", "r", "m", "a", "t", "(", "p", "n", "g", ")", "x">>
    /\ probe.out = Err(<<"invalid transformation", probe.in>>)

\* What one MaxDim or Crop step leaves of an image; a Format step leaves it
\* as it is
AfterStep(step, img, build) ==
    IF step.kind = "MaxDim"
    THEN [panic |-> FALSE, img |-> MaxDimTransform(step, img).img]
    ELSE IF step.kind = "Crop"
    THEN [panic |-> CropTransform(step, img, build).panic,
          img |-> CropTransform(step, img, build).img]
    ELSE [panic |-> FALSE, img |-> img]

\* The image after the first k steps, each applied to the image the
\* previous one left
RECURSIVE ImageAfter(_, _, _, _)
ImageAfterNext(step, prev, build) ==
    IF prev.panic THEN prev ELSE AfterStep(step, prev.img, build)

ImageAfter(steps, img, build, k) ==
    IF k = 0 THEN [panic |-> FALSE, img |-> img]
    ELSE ImageAfterNext(steps[k], ImageAfter(steps, img, build, k - 1), build)

WithoutFormat(steps) == SelectSeq(steps, LAMBDA st : st.kind # "Format")

ChainRun == probe.fn = "transform_image" /\ probe.pc = "done"

SameImage(out, exp) == out.panic = exp.panic /\ (~exp.panic => out.img = exp.img)

RunInOrder(in, out) ==
    /\ SameImage(out, ImageAfter(in.steps, in.img, in.build, Len(in.steps)))
    /\ SameImage(out, ImageAfter(WithoutFormat(in.steps), in.img, in.build,
                                 Len(WithoutFormat(in.steps))))

CropHalfThenMaxDim50 ==
    <<Crop(WidthPercent(5000), HeightPercent(10000), "North"), MaxDim(Pixels(50), Pixels(50))>>

MaxDim50ThenCropHalf ==
    <<MaxDim(Pixels(50), Pixels(50)), Crop(WidthPercent(5000), HeightPercent(10000), "North")>>

\* C24: transform_image applies the MaxDim and Crop steps in the parsed
\* order, each to the image the previous step left, its percentages taken
\* of that image; Format steps change nothing of it.  On 200 x 100,
\* crop(50vw,100vh,n);maxdim(50,50) leaves 50 x 50 and
\* maxdim(50,50);crop(50vw,100vh,n) leaves 25 x 25.
C24_StepsInParsedOrder ==
    ChainRun
        => /\ RunInOrder(probe.in, probe.out)
           /\ probe.in.img = [w |-> 200, h |-> 100]
                => /\ probe.in.steps = CropHalfThenMaxDim50
                        => probe.out.img = [w |-> 50, h |-> 50]
                   /\ probe.in.steps = MaxDim50ThenCropHalf
                        => probe.out.img = [w |-> 25, h |-> 25]

\* C24 happens: maxdim(50,50);crop(50vw,100vh,n);format(png) on 200 x 100
\* crops half of the 50 pixels the first step left
C24_Witness ==
    /\ ChainRun
    /\ probe.in.img = [w |-> 200, h |-> 100]
    /\ probe.in.steps = MaxDim50ThenCropHalf \o <<[kind |-> "Format", format |-> "Png"]>>
    /\ ~probe.out.panic
    /\ probe.out.img = [w |-> 25, h |-> 25]

\* C25: maxdim(w, h) written as its documentation writes it, with
\* whitespace after the comma or around an argument, parses to the MaxDim
\* step of the two dimensions, as crop(w, h, d) does with its arguments.
C25_MaxdimAcceptsWhitespace ==
    StepParsed
        => /\ probe.in \in {StepMaxdimUsage, StepMaxdimSpaceBefore, StepMaxdimPadded}
                => /\ probe.pc = "done"
                   /\ probe.out = Ok(MaxDim(Pixels(100), Pixels(100)))
           /\ probe.in = StepCropUsage
                => probe.out = Ok(Crop(Pixels(100), Pixels(100), "North"))

\* C26: the example of the Crop documentation, crop(100vw, 50), is accepted
\* and is the crop of full width and 50 pixel rows held to the top edge
\* (the whole image when it is lower than 50).
C26_CropExampleAccepted ==
    (StepParsed /\ probe.in = StepCropExample)
        => /\ probe.pc = "done"
           /\ probe.out.ok
           /\ probe.out.val.kind = "Crop"
           /\ probe.out.val.w = WidthPercent(10000)
           /\ probe.out.val.h = Pixels(50)
           /\ probe.out.val.float \in {"North", "NorthEast", "NorthWest"}

ScriptBuilders == {"with_script", "with_script_inline", "with_script_linked"}

\* The step is a call of builder `op`
Called(op) == probe.fn = "html" /\ probe' # probe /\ probe'.last.op = op

AppendsToStyles ==
    /\ probe'.styles = Append(probe.styles, probe'.last.arg)
    /\ probe'.scripts = probe.scripts

AppendsToScripts ==
    /\ probe'.scripts = Append(probe.scripts, probe'.last.arg)
    /\ probe'.styles = probe.styles

\* C27: with_style puts the style at the end of `styles`, the styles
\* already there keeping their order, and leaves `scripts` as it is;
\* with_script, with_script_inline and with_script_linked put their script
\* at the end of `scripts` and leave `styles` as it is.
C27_BuildersAppendToOwnList ==
    [][/\ Called("with_style") => AppendsToStyles
       /\ (\E op \in ScriptBuilders : Called(op)) => AppendsToScripts]_vars

\* A step of add_page(route, page) that inserts
Inserted(route, page) == AddPage(route, page) /\ panic' = NoPanic

ReplacesOnlyRoute(route, page) ==
    /\ DOMAIN pages' = DOMAIN pages
    /\ pages'[route] = page
    /\ \A r \in DOMAIN pages \ {route} : pages'[r] = pages[r]
    /\ notfound' = notfound

\* C28: add_page on a route the table already holds binds the route to the
\* new Servable and leaves every other route and the not-found Servable as
\* they were; with_404 replaces the not-found Servable and nothing else.
C28_ReplaceTouchesOnlyItsTarget ==
    [][/\ \A route \in DOMAIN pages, page \in PageArgs :
            Inserted(route, page) => ReplacesOnlyRoute(route, page)
       /\ \A page \in NotFoundArgs \cup {Default404} :
            WithNotFound(page) => notfound' = page /\ pages' = pages]_vars

\* C28 happens: the table binds two routes, and the route of the request
\* that was answered is now bound to another Servable than the one the
\* request was answered from
C28_Witness ==
    /\ Cardinality(DOMAIN pages) = 2
    /\ req.pc # "idle"
    /\ req.hit
    /\ req.path \in DOMAIN pages
    /\ pages[req.path] # req.page
    /\ notfound = MissingPage

\* A path normalization leaves alone
IsNormalized(path) ==
    /\ path # <<>>
    /\ path[1] = "/"
    /\ \A i \in 1..(Len(path) - 1) : ~(path[i] = "/" /\ path[i + 1] = "/")
    /\ path[Len(path)] = "/" => path = <<"/">>

Following == probe.fn = "follow"

\* C29: the normalization loop ends for every path (each pass over a path
\* holding `//` makes it shorter), the Location of the 308 starts with `/`,
\* holds no `//` and ends with `/` only when it is `/`, and the request for
\* that Location goes to a Servable: no second redirect.
C29_LocationIsFixedPoint ==
    Following
        => /\ Contains(probe.path, <<"/", "/">>)
                => Len(ReplaceDoubleSlash(probe.path)) < Len(probe.path)
           /\ probe.pc = "redirected" => IsNormalized(probe.out.headers["location"])
           /\ probe.hops <= 1
           /\ (probe.hops = 1 /\ probe.pc # "ready") => probe.pc = "served"

\* C29 happens: /a///a takes two passes of the loop, is redirected to /a/a,
\* and the request for /a/a goes to a Servable
C29_Witness ==
    /\ Following
    /\ probe.in = <<"/", "a", "/", "/", "/", "a">>
    /\ probe.path = <<"/", "a", "/", "a">>
    /\ probe.hops = 1
    /\ probe.pc = "served"

\* A GET or HEAD request with a `t` query value for an un-normalized path
\* got its response
RedirectCaseWithQuery == RedirectCase /\ req.t.some

\* The text holds the text of the `t` value
CarriesQuery(text, t) == t # <<>> /\ Contains(text, t)

\* C30: the Location of a normalization redirect is made of the request
\* path alone: with a `t` value in the query the redirect is the one of the
\* same path without it, holding neither `?` nor the value; a normalized
\* path that is no valid header value is answered 400 without Location.
C30_LocationFromPathOnly ==
    RedirectCaseWithQuery
        => IF HoldsDel(req.path)
           THEN req.resp.code = 400 /\ ~ContainsKey(req.resp.headers, "location")
           ELSE /\ req.resp.code = 308
                /\ req.resp.headers["location"] = CollapsedPath(req.path)
                /\ ~Contains(req.resp.headers["location"], <<"?">>)
                /\ ~CarriesQuery(req.resp.headers["location"], req.t.s)

\* C30 happens: GET /a//b/?t=maxdim(10,10) is answered 308 to /a/b
C30_Witness ==
    /\ RedirectCaseWithQuery
    /\ req.path = <<"/", "a", "/", "/", "b", "/">>
    /\ req.t = SomeT(ChainMaxdim)
    /\ req.resp.code = 308
    /\ req.resp.headers["location"] = <<"/", "a", "/", "b">>

====
